---- MODULE Spec2Model ----
(***************************************************************************)
(* Capability-routed batch RPC dispatcher and session/nickname state       *)
(* machine of capinrs: the HTTP batch path (processRpcBatch and its three  *)
(* handlers) and the WebSocket RPC target (CapnWebDurable), which share    *)
(* the durable storage keys chatState, callCount, lastRequest and          *)
(* lastResponse.                                                           *)
(*                                                                         *)
(* JavaScript values are represented as follows.                           *)
(*   - a string is a TLA+ string; undefined (a missing object field) is  *)
(*     the reserved string Undefined, and a value inherited from           *)
(*     Object.prototype (what obj["constructor"] yields on a plain object  *)
(*     that has no such own key) is the reserved string Inherited;         *)
(*   - a Record<string,string> is a function whose DOMAIN is the set of    *)
(*     own keys; sessionCaps is a function on the integer ids (its keys    *)
(*     are String(id) of integers);                                        *)
(*   - nickTokens is the sequence of its entries in Object.entries order   *)
(*     (insertion order; an assignment to an existing key keeps its place);*)
(*   - an argument of a call is a tagged value, Str(s) or Num(n);          *)
(*   - a message text is the source's, without its backquotes (a string    *)
(*     of the module cannot hold one).                                     *)
(***************************************************************************)
EXTENDS Integers, Sequences, FiniteSets, TLC

(***************************************************************************)
(* Program constants.                                                      *)
(***************************************************************************)
CALCULATOR_CAP_ID == 1
CHAT_CAPABILITY_ID == 2
SESSION_CAPABILITY_START == 10000
\* tokensForUser.slice(5): the number of tokens kept per username
TOKENS_KEPT == 5

(***************************************************************************)
(* Bounds of the model.                                                    *)
(***************************************************************************)
\* session capabilities minted at most
MaxSessions == 2
\* length of the messages array at most
MaxMessages == 2
\* broadcast members at most
MaxClients == 2
\* Date.now() ranges over 0..MaxClock
MaxClock == 1
\* batches dispatched at most (callCount is an unbounded counter) in Spec
MaxCalls == 3
\* batches dispatched at most in SpecNick
MaxNickCalls == 3
\* batches dispatched at most in SpecChat and in SpecBroadcast
MaxChatCalls == 3
\* batches dispatched at most in SpecCaps
MaxCapCalls == 4
\* batches dispatched at most in SpecTokens
MaxTokenCalls == 7
\* batches dispatched at most in SpecIdentity
MaxIdentityCalls == 4
\* sendMessage requests in progress at once
MaxOverlap == 2
\* batches dispatched at most in SpecPutFails
MaxFailCalls == 3
\* batches dispatched at most in SpecLog
MaxLogCalls == 4
\* batches dispatched at most in SpecStale
MaxStaleCalls == 3
\* batches counted at most in SpecStats
MaxStatsCalls == 3
\* batches counted at most in SpecFrame
MaxFrameCalls == 4
\* batches counted at most in SpecShared
MaxSharedCalls == 5
\* sessions minted at most in SpecMint
MaxMintSessions == 3
\* batches counted at most in SpecOthers
MaxOtherCalls == 2
\* fields of the stored document that differ at once from a well-formed one
MaxCorrupt == 2

(***************************************************************************)
(* JavaScript values.                                                      *)
(***************************************************************************)
Undefined == "<undefined>"
Inherited == "<Object.prototype>"

\* One representative of the keys every plain object inherits
\* (constructor, toString, valueOf, hasOwnProperty, ...).
ProtoKeys == {"constructor"}

Str(s) == [t |-> "string", s |-> s, n |-> 0]
Num(n) == [t |-> "number", s |-> "", n |-> n]

\* typeof args[i] === "string" (false when i is past the end: undefined)
IsStringArg(args, i) == i <= Len(args) /\ args[i].t = "string"

\* JavaScript truthiness of a string-or-undefined value
Truthy(v) == v # Undefined /\ v # ""

\* obj[key] on a plain object: the own value, else the inherited one
Get(obj, key) ==
  IF key \in DOMAIN obj THEN obj[key]
  ELSE IF key \in ProtoKeys THEN Inherited
  ELSE Undefined

\* obj[key] = value
Put(obj, key, value) ==
  [k \in DOMAIN obj \cup {key} |-> IF k = key THEN value ELSE obj[k]]

\* a ?? b
Coalesce(a, b) == IF a = Undefined THEN b ELSE a

\* String.prototype.trim on the strings of the model
Trim(s) ==
  CASE s = " " -> ""
    [] s = " t1 " -> "t1"
    [] OTHER -> s

Max(a, b) == IF a >= b THEN a ELSE b

EmptyMap == [k \in {} |-> Undefined]

RECURSIVE SelectSeqIdx(_, _, _)
\* the subsequence of s at the indices i >= from for which keep[i]
SelectSeqIdx(s, keep, from) ==
  IF from > Len(s) THEN <<>>
  ELSE (IF keep[from] THEN <<s[from]>> ELSE <<>>) \o SelectSeqIdx(s, keep, from + 1)

(***************************************************************************)
(* The chat aggregate (rpc.ts).                                            *)
(***************************************************************************)
DefaultCredentials ==
  [u \in {"alice", "bob", "carol"} |->
     CASE u = "alice" -> "password123"
       [] u = "bob" -> "hunter2"
       [] OTHER -> "letmein"]

DEFAULT_CHAT_STATE ==
  [credentials |-> DefaultCredentials,
   messages |-> <<>>,
   nextSessionCapId |-> SESSION_CAPABILITY_START,
   sessionCaps |-> EmptyMap,
   registeredNicks |-> EmptyMap,
   nickOwners |-> EmptyMap,
   nickTokens |-> <<>>]

\* storage.get(key) of a key never written
NoValue == [undefined |-> TRUE]

\* the entries of a messages array that normalizeChatState keeps
NormalizeMessages(messages) ==
  SelectSeq(messages, LAMBDA m : Truthy(m.from) /\ Truthy(m.body))

\* the sessionCaps entries that normalizeChatState keeps
NormalizeSessionCaps(sessionCaps) ==
  [id \in {k \in DOMAIN sessionCaps : sessionCaps[k].username # Undefined} |->
     sessionCaps[id]]

\* the nickTokens entries that normalizeChatState keeps, as it rewrites them
NormalizeNickTokens(nickTokens) ==
  LET kept == SelectSeq(nickTokens, LAMBDA e : Truthy(e.username))
  IN [i \in 1..Len(kept) |->
        [token |-> kept[i].token,
         username |-> kept[i].username,
         nickname |-> IF Truthy(kept[i].nickname) THEN kept[i].nickname ELSE Undefined,
         issuedAt |-> kept[i].issuedAt,
         lastUsed |-> kept[i].lastUsed]]

normalizeChatState(source) ==
  [credentials |->
     [u \in DOMAIN DefaultCredentials \cup DOMAIN source.credentials |->
        IF u \in DOMAIN source.credentials THEN source.credentials[u]
        ELSE DefaultCredentials[u]],
   messages |-> NormalizeMessages(source.messages),
   nextSessionCapId |-> Max(SESSION_CAPABILITY_START, source.nextSessionCapId),
   sessionCaps |-> NormalizeSessionCaps(source.sessionCaps),
   registeredNicks |-> source.registeredNicks,
   nickOwners |-> source.nickOwners,
   nickTokens |-> NormalizeNickTokens(source.nickTokens)]

loadChatState(raw) ==
  IF raw = NoValue THEN DEFAULT_CHAT_STATE ELSE normalizeChatState(raw)

(***************************************************************************)
(* tryHandleChatBatch: the method switch.  Every call yields               *)
(*   [state, mutated, result, broadcast]: the in-memory chatState after    *)
(*   the call, the mutated flag, payloadResult, and the messages handed  *)
(*   to server.broadcastMessage.                                           *)
(***************************************************************************)
NoTime == 0 - 1

Success(value) == [success |-> TRUE, value |-> value]
Failure(message) == [success |-> FALSE, message |-> message]

Capability(id) == [type |-> "capability", id |-> id]

\* a branch that leaves mutated false
Unmutated(cs, result) ==
  [state |-> cs, mutated |-> FALSE, result |-> result, broadcast |-> <<>>]

\* a branch that sets mutated
Mutated(cs, result) ==
  [state |-> cs, mutated |-> TRUE, result |-> result, broadcast |-> <<>>]

\* faulty variant of ProbeSessionCapId: the counter is taken as it is
ProbeNothing(sessionCaps, sessionCapId) == sessionCapId

RECURSIVE ProbeSessionCapId(_, _)
\* while (chatState.sessionCaps[String(sessionCapId)]) sessionCapId += 1
ProbeSessionCapId(sessionCaps, sessionCapId) ==
  IF sessionCapId \in DOMAIN sessionCaps
  THEN ProbeSessionCapId(sessionCaps, sessionCapId + 1)
  ELSE sessionCapId

\* faulty variant of NextAfter: the counter stays on the id just minted
NextSame(sessionCapId) == sessionCapId

\* chatState.nextSessionCapId = sessionCapId + 1
NextAfter(sessionCapId) == sessionCapId + 1

GuestName(sessionCapId) == "guest-" \o ToString(sessionCapId)

\* case "auth" on the chat capability
AuthCall(cs, args) ==
  IF ~IsStringArg(args, 1)
  THEN Unmutated(cs, Failure("auth expects <username>"))
  ELSE
    LET sessionCapId == ProbeSessionCapId(cs.sessionCaps, cs.nextSessionCapId)
        storedUsername == GuestName(sessionCapId)
    IN Mutated(
         [cs EXCEPT !.nextSessionCapId = NextAfter(sessionCapId),
                    !.sessionCaps = Put(@, sessionCapId,
                        [username |-> storedUsername, displayName |-> Undefined])],
         Success([session |-> Capability(sessionCapId), user |-> storedUsername]))

\* the index of the own entry of nickTokens under token, 0 when there is none
TokenIndex(nickTokens, token) ==
  IF \E i \in 1..Len(nickTokens) : nickTokens[i].token = token
  THEN CHOOSE i \in 1..Len(nickTokens) : nickTokens[i].token = token
  ELSE 0

\* what {...Object, ...} spreads and Object.username reads: nothing
InheritedTokenInfo(token) ==
  [token |-> token, username |-> Undefined, nickname |-> Undefined,
   issuedAt |-> NoTime, lastUsed |-> NoTime]

\* chatState.nickTokens[token] = info
PutToken(nickTokens, info) ==
  LET i == TokenIndex(nickTokens, info.token)
  IN IF i = 0 THEN Append(nickTokens, info)
     ELSE [nickTokens EXCEPT ![i] = info]

\* case "redeemNickToken" on the chat capability
RedeemNickTokenCall(cs, args, t) ==
  IF ~(Len(args) = 1 /\ IsStringArg(args, 1))
  THEN Unmutated(cs, Failure("redeemNickToken expects <token>"))
  ELSE
    LET token == Trim(args[1].s)
        i == TokenIndex(cs.nickTokens, token)
    IN IF ~Truthy(token)
       THEN Unmutated(cs, Success([status |-> "error", message |-> "Token must be provided"]))
       ELSE IF i = 0 /\ token \notin ProtoKeys
       THEN Unmutated(cs, Success([status |-> "error", message |-> "Token not recognized"]))
       ELSE
         LET tokenInfo == IF i = 0 THEN InheritedTokenInfo(token) ELSE cs.nickTokens[i]
             sessionCapId == ProbeSessionCapId(cs.sessionCaps, cs.nextSessionCapId)
             nickname == Coalesce(tokenInfo.nickname, tokenInfo.username)
         IN Mutated(
              [cs EXCEPT !.nextSessionCapId = NextAfter(sessionCapId),
                         !.sessionCaps = Put(@, sessionCapId,
                             [username |-> tokenInfo.username, displayName |-> nickname]),
                         !.nickTokens = PutToken(@, [tokenInfo EXCEPT !.lastUsed = t])],
              Success([status |-> "ok", session |-> Capability(sessionCapId),
                       user |-> tokenInfo.username, nickname |-> nickname]))

\* the switch on the chat capability (CHAT_CAPABILITY_ID)
GlobalCall(cs, method, args, t) ==
  CASE method = "auth" -> AuthCall(cs, args)
    [] method = "redeemNickToken" -> RedeemNickTokenCall(cs, args, t)
    [] method \in {"sendMessage", "receiveMessages"} ->
         Unmutated(cs, Failure("Call this method on the session capability returned by auth"))
    [] OTHER -> Unmutated(cs, Failure("Unknown chat method: " \o method))

\* displayName ?? username
DisplayIdentity(sessionInfo) == Coalesce(sessionInfo.displayName, sessionInfo.username)

\* chatState.messages.push(newMessage)
PushMessage(messages, newMessage) == Append(messages, newMessage)

\* case "sendMessage"
SendMessageCall(cs, sessionInfo, args, t) ==
  IF ~(Len(args) = 1 /\ IsStringArg(args, 1))
  THEN Unmutated(cs, Failure("sendMessage expects <message>"))
  ELSE
    LET newMessage == [from |-> DisplayIdentity(sessionInfo), body |-> args[1].s,
                       timestamp |-> t]
    IN [state |-> [cs EXCEPT !.messages = PushMessage(@, newMessage)],
        mutated |-> TRUE,
        result |-> Success([status |-> "ok", echo |-> args[1].s]),
        broadcast |-> <<newMessage>>]

\* case "receiveMessages"
ReceiveMessagesCall(cs, args) ==
  IF Len(args) # 0
  THEN Unmutated(cs, Failure("receiveMessages takes no arguments"))
  ELSE Unmutated(cs, Success([messages |-> cs.messages]))

\* faulty variant of BindDisplayName: the session keeps its display name
KeepDisplayName(sessionCaps, capabilityId, nickname) == sessionCaps

\* faulty variant of BindDisplayName: every session takes the display name
BindEveryDisplayName(sessionCaps, capabilityId, nickname) ==
  [id \in DOMAIN sessionCaps |-> [sessionCaps[id] EXCEPT !.displayName = nickname]]

\* sessionInfo.displayName = nickname; chatState.sessionCaps[String(capabilityId)] = sessionInfo
BindDisplayName(sessionCaps, capabilityId, nickname) ==
  [sessionCaps EXCEPT ![capabilityId].displayName = nickname]

\* if (chatState.registeredNicks[nickname])
AlreadyRegistered(registeredNicks, nickname) == Truthy(Get(registeredNicks, nickname))

\* case "registerNick"
RegisterNickCall(cs, capabilityId, args) ==
  IF ~(Len(args) = 2 /\ IsStringArg(args, 1) /\ IsStringArg(args, 2))
  THEN Unmutated(cs, Failure("registerNick expects <nickname>, <password>"))
  ELSE
    LET nickname == args[1].s
        password == args[2].s
    IN IF AlreadyRegistered(cs.registeredNicks, nickname)
       THEN Unmutated(cs, Success([status |-> "error",
                                   message |-> "Nickname already registered"]))
       ELSE Mutated(
              [cs EXCEPT !.registeredNicks = Put(@, nickname, password),
                         !.nickOwners = Put(@, nickname, cs.sessionCaps[capabilityId].username),
                         !.sessionCaps = BindDisplayName(@, capabilityId, nickname)],
              Success([status |-> "ok",
                       message |-> "Nickname '" \o nickname \o "' registered successfully"]))

\* if (!storedPassword)
NotRegistered(storedPassword) == ~Truthy(storedPassword)

\* faulty variant of PasswordMismatch: any password passes
PasswordNeverMismatches(storedPassword, password) == FALSE

\* if (storedPassword !== password)
PasswordMismatch(storedPassword, password) == storedPassword # password

\* faulty variant of TransferOwner: the nickname is recorded as its own owner
OwnerIsNickname(nickOwners, nickname, username) == Put(nickOwners, nickname, nickname)

\* chatState.nickOwners[nickname] = sessionInfo.username
TransferOwner(nickOwners, nickname, username) == Put(nickOwners, nickname, username)

\* case "identifyNick"
IdentifyNickCall(cs, capabilityId, args) ==
  IF ~(Len(args) = 2 /\ IsStringArg(args, 1) /\ IsStringArg(args, 2))
  THEN Unmutated(cs, Failure("identifyNick expects <nickname>, <password>"))
  ELSE
    LET nickname == args[1].s
        password == args[2].s
        storedPassword == Get(cs.registeredNicks, nickname)
    IN IF NotRegistered(storedPassword)
       THEN Unmutated(cs, Success([status |-> "error", message |-> "Nickname not registered"]))
       ELSE IF PasswordMismatch(storedPassword, password)
       THEN Unmutated(cs, Success([status |-> "error", message |-> "Invalid password"]))
       ELSE Mutated(
              [cs EXCEPT !.nickOwners =
                             TransferOwner(@, nickname, cs.sessionCaps[capabilityId].username),
                         !.sessionCaps = BindDisplayName(@, capabilityId, nickname)],
              Success([status |-> "ok",
                       message |-> "Successfully identified as '" \o nickname \o "'"]))

\* case "checkNick"
CheckNickCall(cs, args) ==
  IF ~(Len(args) = 1 /\ IsStringArg(args, 1))
  THEN Unmutated(cs, Failure("checkNick expects <nickname>"))
  ELSE Unmutated(cs, Success([status |-> "ok",
                              registered |-> Truthy(Get(cs.registeredNicks, args[1].s))]))

\* the place of entry i in tokensForUser: the entries of username sorted by
\* issuedAt descending, ties in Object.entries order (Array.prototype.sort is stable)
SortedPlace(nickTokens, username, i) ==
  Cardinality({j \in 1..Len(nickTokens) :
     /\ nickTokens[j].username = username
     /\ \/ nickTokens[j].issuedAt > nickTokens[i].issuedAt
        \/ (nickTokens[j].issuedAt = nickTokens[i].issuedAt /\ j < i)})

\* faulty variant of PruneTokens: nothing is deleted
KeepAllTokens(nickTokens, username) == nickTokens

\* tokensForUser.slice(5).forEach(delete): the entries that stay
PruneTokens(nickTokens, username) ==
  SelectSeqIdx(nickTokens,
    [i \in 1..Len(nickTokens) |->
       \/ nickTokens[i].username # username
       \/ SortedPlace(nickTokens, username, i) < TOKENS_KEPT],
    1)

\* case "storeNickToken"
StoreNickTokenCall(cs, sessionInfo, args, t) ==
  IF ~(Len(args) = 1 /\ IsStringArg(args, 1))
  THEN Unmutated(cs, Failure("storeNickToken expects <token>"))
  ELSE
    LET token == Trim(args[1].s)
        info == [token |-> token,
                 username |-> sessionInfo.username,
                 nickname |-> IF Truthy(sessionInfo.displayName)
                              THEN sessionInfo.displayName ELSE Undefined,
                 issuedAt |-> t,
                 lastUsed |-> t]
    IN IF ~Truthy(token)
       THEN Unmutated(cs, Success([status |-> "error", message |-> "Token must be provided"]))
       ELSE Mutated(
              [cs EXCEPT !.nickTokens =
                 PruneTokens(PutToken(@, info), sessionInfo.username)],
              Success([status |-> "ok", message |-> "Nickname token stored"]))

\* case "whoami"
WhoamiCall(cs, sessionInfo) ==
  Unmutated(cs, Success([username |-> DisplayIdentity(sessionInfo)]))

\* the switch on a session capability
SessionCall(cs, capabilityId, method, args, t) ==
  LET sessionInfo == cs.sessionCaps[capabilityId]
  IN CASE method = "sendMessage" -> SendMessageCall(cs, sessionInfo, args, t)
       [] method = "receiveMessages" -> ReceiveMessagesCall(cs, args)
       [] method = "registerNick" -> RegisterNickCall(cs, capabilityId, args)
       [] method = "identifyNick" -> IdentifyNickCall(cs, capabilityId, args)
       [] method = "checkNick" -> CheckNickCall(cs, args)
       [] method = "storeNickToken" -> StoreNickTokenCall(cs, sessionInfo, args, t)
       [] method = "whoami" -> WhoamiCall(cs, sessionInfo)
       [] OTHER ->
            Unmutated(cs, Failure("method " \o method \o " not supported on session capability"))

\* if (!sessionInfo): the capability id is no key of sessionCaps
UnknownSession(cs, capabilityId) == capabilityId \notin DOMAIN cs.sessionCaps

\* faulty variant of UnknownSessionResult: the branch sets mutated
UnknownSessionMutated(cs) == Mutated(cs, Failure("unknown session capability"))

\* payloadResult = { success: false, message: "unknown session capability" }
UnknownSessionResult(cs) == Unmutated(cs, Failure("unknown session capability"))

\* the capability switch of tryHandleChatBatch, from the loaded chatState
ChatCall(cs, capabilityId, method, args, t) ==
  IF capabilityId = CHAT_CAPABILITY_ID
  THEN GlobalCall(cs, method, args, t)
  ELSE IF UnknownSession(cs, capabilityId)
  THEN UnknownSessionResult(cs)
  ELSE SessionCall(cs, capabilityId, method, args, t)

(***************************************************************************)
(* State.                                                                  *)
(***************************************************************************)
VARIABLES
  chatState,     \* storage key "chatState": the persisted document, or NoValue
  callCount,     \* storage key "callCount" (a key never written reads as 0)
  lastRequest,   \* storage key "lastRequest"
  lastResponse,  \* storage key "lastResponse"
  clients,       \* CapnWebDurable.clients, in insertion order
  now,           \* Date.now()
  request,       \* the latest request received
  response,      \* what the latest request was answered with
  effects,       \* the storage and broadcast operations of the latest request, in order
  deliveries,    \* the receiveMessage calls of the latest request, in order
  pending        \* the requests in progress at once, each with the await it is suspended at

vars == <<chatState, callCount, lastRequest, lastResponse, clients, now,
          request, response, effects, deliveries, pending>>

\* no request yet
NoRequest == [via |-> "none"]

\* the requests that may be in progress at once
Slots == 1..MaxOverlap

\* a slot whose request has not arrived
NoPending ==
  [pc |-> "idle", req |-> NoRequest, out |-> NoValue, answer |-> NoValue, held |-> FALSE]

Init ==
  /\ chatState = NoValue
  /\ callCount = 0
  /\ lastRequest = NoValue
  /\ lastResponse = NoValue
  /\ clients = <<>>
  /\ now = 0
  /\ request = NoRequest
  /\ response = NoValue
  /\ effects = <<>>
  /\ deliveries = <<>>
  /\ pending = [slot \in Slots |-> NoPending]

(***************************************************************************)
(* Broadcast hub (CapnWebDurable.clients).                                 *)
(***************************************************************************)
ClientIds == 1..MaxClients

\* this.clients.delete(clientStub)
DeleteClient(members, c) == SelectSeq(members, LAMBDA x : x # c)

\* faulty variant of EvictFailed: the failed member stays
KeepFailed(members, c) == members

\* what the catch block of the delivery loop does with the member set
EvictFailed(members, c) == DeleteClient(members, c)

RECURSIVE DeliverTo(_, _, _, _)
\* for (const clientStub of Array.from(this.clients)) try { await receiveMessage } catch { delete }
\* snapshot: the members still to visit; failing: the members whose receiveMessage throws
DeliverTo(snapshot, members, failing, message) ==
  IF snapshot = <<>>
  THEN [clients |-> members, deliveries |-> <<>>]
  ELSE
    LET c == Head(snapshot)
        ok == c \notin failing
        rest == DeliverTo(Tail(snapshot),
                          IF ok THEN members ELSE EvictFailed(members, c),
                          failing, message)
    IN [clients |-> rest.clients,
        deliveries |-> <<[client |-> c, message |-> message, ok |-> ok]>> \o rest.deliveries]

\* CapnWebDurable.broadcastMessage
broadcastMessage(members, failing, message) ==
  DeliverTo(members, members, failing, message)

\* fetch with Upgrade: websocket -> registerClient(clientStub)
RegisterClient ==
  /\ Len(clients) < MaxClients
  /\ \E c \in ClientIds :
       /\ \A i \in 1..Len(clients) : clients[i] # c
       /\ clients' = Append(clients, c)
  /\ UNCHANGED <<chatState, callCount, lastRequest, lastResponse, now,
                 request, response, effects, deliveries, pending>>

\* the onRpcBroken callback of a registered client
RpcBroken ==
  /\ \E i \in 1..Len(clients) : clients' = DeleteClient(clients, clients[i])
  /\ UNCHANGED <<chatState, callCount, lastRequest, lastResponse, now,
                 request, response, effects, deliveries, pending>>

\* time passes
Tick ==
  /\ now < MaxClock
  /\ now' = now + 1
  /\ UNCHANGED <<chatState, callCount, lastRequest, lastResponse, clients,
                 request, response, effects, deliveries, pending>>

(***************************************************************************)
(* processRpcBatch: stats handler, chat handler, calculator.               *)
(*                                                                         *)
(* A payload is [via, shape, cap, method, args, importId].  shape says how *)
(* far the text decodes:                                                   *)
(*   "batch"           two lines, ["push",["call",cap,[method],args]] and  *)
(*                     ["pull",importId], cap a number and args an array   *)
(*   "pullIdNotNumber" the same with a string as importId                  *)
(*   "noArgs"          the same with the call lacking its args element     *)
(*   "wrongTag"        two lines of JSON arrays, the first not a "push"    *)
(*   "oneLine"         a single non-empty line                             *)
(*   "badJson"         two lines that are no JSON                          *)
(*   "notArray"        two lines of JSON that are no arrays                *)
(***************************************************************************)
Batch(cap, method, args) ==
  [via |-> "batch", shape |-> "batch", cap |-> cap, method |-> method,
   args |-> args, importId |-> Num(7)]

\* the payload of req decoded as far as shape sh says
Shaped(req, sh) ==
  [req EXCEPT !.shape = sh,
              !.importId = IF sh = "pullIdNotNumber" THEN Str("x") ELSE @]

\* two lines of JSON, pushOp = ["push", ["call", ...]] and pullOp = ["pull", ...]
PushPullShape(req) == req.shape \in {"batch", "pullIdNotNumber", "noArgs"}

\* faulty variant of StatsRecognizes: only on the calculator capability
StatsOnCalculatorOnly(req) ==
  /\ PushPullShape(req)
  /\ req.method = "stats"
  /\ req.importId.t = "number"
  /\ req.cap = CALCULATOR_CAP_ID

\* tryHandleStatsBatch returns a Response
StatsRecognizes(req) ==
  /\ PushPullShape(req)
  /\ req.method = "stats"
  /\ req.importId.t = "number"

\* faulty variant of ChatRecognizes: a call without args is taken
ChatRecognizesWithoutArgs(req) ==
  /\ PushPullShape(req)
  /\ req.importId.t = "number"
  /\ Truthy(req.method)

\* tryHandleChatBatch gets past its decoding checks
ChatRecognizes(req) ==
  /\ PushPullShape(req)
  /\ req.importId.t = "number"
  /\ Truthy(req.method)
  /\ req.shape # "noArgs"

readDurableStats ==
  [callCount |-> callCount, lastRequest |-> lastRequest, lastResponse |-> lastResponse]

Result(importId, value) == [tag |-> "result", importId |-> importId, value |-> value]
Error(importId, message) == [tag |-> "error", importId |-> importId, message |-> message]

\* const reply = payloadResult.success ? ["result", ...] : ["error", ...]
Reply(importId, payloadResult) ==
  IF payloadResult.success
  THEN Result(importId, payloadResult.value)
  ELSE Error(importId, payloadResult.message)

\* faulty variant of PersistIf: every dispatched call writes
PersistAlways(mutated) == TRUE

\* faulty variant of PersistIf: the aggregate is never written
PersistNever(mutated) == FALSE

\* if (mutated) await persistChatState(state, chatState)
PersistIf(mutated) == mutated

\* handleCalculatorCall: the value, or the message of the Error it throws
handleCalculatorCall(method, args) ==
  CASE method = "add" ->
         IF Len(args) = 2 /\ args[1].t = "number" /\ args[2].t = "number"
         THEN Success(Num(args[1].n + args[2].n))
         ELSE Failure("add expects exactly two numeric arguments")
    [] method = "stats" -> Failure("stats should be handled by tryHandleStatsBatch")
    [] OTHER -> Failure("unknown calculator method " \o method)

\* the three puts that follow a dispatched batch
CountPuts == <<"get callCount", "put callCount", "put lastRequest", "put lastResponse">>

NextCountSame(count) == count

\* const nextCount = ((await state.storage.get<number>("callCount")) ?? 0) + 1
NextCount(count) == count + 1

\* Guards that keep the model finite: a call that would mint a session, append
\* a message or advance callCount past the bounds is not taken.
WithinBounds(out) ==
  /\ out.state.nextSessionCapId <= SESSION_CAPABILITY_START + MaxSessions
  /\ Len(out.state.messages) <= MaxMessages

\* faulty variant of AfterBroadcast: a failed delivery fails the request
FailOnFailedDelivery(payloadResult, sent) ==
  IF \E i \in 1..Len(sent) : ~sent[i].ok
  THEN Failure("Failed to broadcast message")
  ELSE payloadResult

\* try { await server.broadcastMessage(newMessage) } catch (error) { console.error }
\* payloadResult = {success: true, ...}: what the deliveries did is not looked at
AfterBroadcast(payloadResult, sent) == payloadResult

ProcessRpcBatch(req, failing) ==
  /\ request' = req
  /\ UNCHANGED <<now, pending>>
  /\ IF StatsRecognizes(req)
     THEN /\ response' = Result(req.importId, readDurableStats)
          /\ effects' = <<"get callCount", "get lastRequest", "get lastResponse">>
          /\ deliveries' = <<>>
          /\ UNCHANGED <<chatState, callCount, lastRequest, lastResponse, clients>>
     ELSE IF ChatRecognizes(req)
     THEN LET out == ChatCall(loadChatState(chatState), req.cap, req.method, req.args, now)
              sent == IF out.broadcast = <<>>
                      THEN [clients |-> clients, deliveries |-> <<>>]
                      ELSE broadcastMessage(clients, failing, out.broadcast[1])
              reply == Reply(req.importId, AfterBroadcast(out.result, sent.deliveries))
          IN /\ WithinBounds(out)
             /\ (out.broadcast = <<>> => failing = {})
             /\ chatState' = IF PersistIf(out.mutated) THEN out.state ELSE chatState
             /\ clients' = sent.clients
             /\ deliveries' = sent.deliveries
             /\ effects' = <<"get chatState">>
                   \o (IF out.broadcast = <<>> THEN <<>> ELSE <<"broadcast">>)
                   \o (IF PersistIf(out.mutated) THEN <<"put chatState">> ELSE <<>>)
                   \o CountPuts
             /\ response' = reply
             /\ callCount' = NextCount(callCount)
             /\ lastRequest' = req
             /\ lastResponse' = reply
     ELSE IF PushPullShape(req) /\ req.cap = CALCULATOR_CAP_ID
     THEN LET result == handleCalculatorCall(req.method, req.args)
          IN /\ deliveries' = <<>>
             /\ UNCHANGED <<chatState, clients>>
             /\ IF result.success
                THEN /\ response' = Result(req.importId, result.value)
                     /\ effects' = CountPuts
                     /\ callCount' = NextCount(callCount)
                     /\ lastRequest' = req
                     /\ lastResponse' = Result(req.importId, result.value)
                ELSE /\ response' = Error(Num(0), result.message)
                     /\ effects' = <<>>
                     /\ UNCHANGED <<callCount, lastRequest, lastResponse>>
     ELSE /\ response' = Error(Num(0), IF req.shape = "badJson"
                                       THEN "<SyntaxError of JSON.parse>"
                                       ELSE "Unsupported operation")
          /\ effects' = <<>>
          /\ deliveries' = <<>>
          /\ UNCHANGED <<chatState, callCount, lastRequest, lastResponse, clients>>

(***************************************************************************)
(* The WebSocket RPC target CapnWebDurable (server/index.ts).  Its own     *)
(* ChatState has no nickTokens field and its default credentials are       *)
(* empty: what it persists holds no tokens.                                *)
(***************************************************************************)
WsDefaultChatState ==
  [DEFAULT_CHAT_STATE EXCEPT !.credentials = EmptyMap]

\* normalizeChatState of server/index.ts
WsNormalizeChatState(source) ==
  [credentials |-> source.credentials,
   messages |-> NormalizeMessages(source.messages),
   nextSessionCapId |-> Max(SESSION_CAPABILITY_START, source.nextSessionCapId),
   sessionCaps |-> NormalizeSessionCaps(source.sessionCaps),
   registeredNicks |-> source.registeredNicks,
   nickOwners |-> source.nickOwners,
   nickTokens |-> <<>>]

\* loadChatState of server/index.ts
WsLoadChatState(raw) ==
  IF raw = NoValue THEN WsDefaultChatState ELSE WsNormalizeChatState(raw)

Rpc(method, cap, args) ==
  [via |-> "ws", shape |-> "rpc", cap |-> cap, method |-> method,
   args |-> args, importId |-> Num(0)]

Return(value) == [tag |-> "return", value |-> value]
Throw(message) == [tag |-> "throw", message |-> message]

\* a method that returns or throws without writing
WsReadOnly(req, answer) ==
  /\ request' = req
  /\ response' = answer
  /\ effects' = <<"get chatState">>
  /\ deliveries' = <<>>
  /\ UNCHANGED <<chatState, callCount, lastRequest, lastResponse, clients, now, pending>>

\* a method that persists cs and returns value
WsPersist(req, cs, value) ==
  /\ cs.nextSessionCapId <= SESSION_CAPABILITY_START + MaxSessions
  /\ request' = req
  /\ response' = Return(value)
  /\ chatState' = cs
  /\ effects' = <<"get chatState", "put chatState">>
  /\ deliveries' = <<>>
  /\ UNCHANGED <<callCount, lastRequest, lastResponse, clients, now, pending>>

\* CapnWebDurable.auth
WsAuth(username, password) ==
  LET cs == WsLoadChatState(chatState)
      req == Rpc("auth", 0, <<Str(username), Str(password)>>)
      sessionCapId == ProbeSessionCapId(cs.sessionCaps, cs.nextSessionCapId)
  IN IF password # "default_password"
     THEN WsReadOnly(req, Throw("invalid credentials"))
     ELSE WsPersist(req,
            [cs EXCEPT !.nextSessionCapId = NextAfter(sessionCapId),
                       !.sessionCaps = Put(@, sessionCapId,
                           [username |-> username, displayName |-> username])],
            [session |-> Capability(sessionCapId), user |-> username])

\* CapnWebDurable.sendMessage
WsSendMessage(capabilityId, message, failing) ==
  LET cs == WsLoadChatState(chatState)
      req == Rpc("sendMessage", capabilityId, <<Str(message)>>)
  IN IF UnknownSession(cs, capabilityId)
     THEN failing = {} /\ WsReadOnly(req, Throw("unknown session capability"))
     ELSE
       LET newMessage == [from |-> DisplayIdentity(cs.sessionCaps[capabilityId]),
                          body |-> message, timestamp |-> now]
           sent == DeliverTo(clients, clients, failing, newMessage)
       IN /\ Len(cs.messages) < MaxMessages
          /\ request' = req
          /\ response' = Return([status |-> "ok", echo |-> message])
          /\ chatState' = [cs EXCEPT !.messages = PushMessage(@, newMessage)]
          /\ clients' = sent.clients
          /\ deliveries' = sent.deliveries
          /\ effects' = <<"get chatState", "put chatState", "broadcast">>
          /\ UNCHANGED <<callCount, lastRequest, lastResponse, now, pending>>

\* CapnWebDurable.registerNick
WsRegisterNick(capabilityId, nickname, password) ==
  LET cs == WsLoadChatState(chatState)
      req == Rpc("registerNick", capabilityId, <<Str(nickname), Str(password)>>)
  IN IF UnknownSession(cs, capabilityId)
     THEN WsReadOnly(req, Throw("unknown session capability"))
     ELSE IF AlreadyRegistered(cs.registeredNicks, nickname)
     THEN WsReadOnly(req, Return([status |-> "error",
                                  message |-> "Nickname already registered"]))
     ELSE WsPersist(req,
            [cs EXCEPT !.registeredNicks = Put(@, nickname, password),
                       !.nickOwners = Put(@, nickname, cs.sessionCaps[capabilityId].username),
                       !.sessionCaps = BindDisplayName(@, capabilityId, nickname)],
            [status |-> "ok",
             message |-> "Nickname '" \o nickname \o "' registered successfully"])

\* CapnWebDurable.identifyNick
WsIdentifyNick(capabilityId, nickname, password) ==
  LET cs == WsLoadChatState(chatState)
      req == Rpc("identifyNick", capabilityId, <<Str(nickname), Str(password)>>)
      storedPassword == Get(cs.registeredNicks, nickname)
  IN IF UnknownSession(cs, capabilityId)
     THEN WsReadOnly(req, Throw("unknown session capability"))
     ELSE IF NotRegistered(storedPassword)
     THEN WsReadOnly(req, Return([status |-> "error", message |-> "Nickname not registered"]))
     ELSE IF PasswordMismatch(storedPassword, password)
     THEN WsReadOnly(req, Return([status |-> "error", message |-> "Invalid password"]))
     ELSE WsPersist(req,
            [cs EXCEPT !.nickOwners =
                           TransferOwner(@, nickname, cs.sessionCaps[capabilityId].username),
                       !.sessionCaps = BindDisplayName(@, capabilityId, nickname)],
            [status |-> "ok",
             message |-> "Successfully identified as '" \o nickname \o "'"])

(***************************************************************************)
(* Inputs.                                                                 *)
(***************************************************************************)
Passwords == {"pw", ""}
Bodies == {"hi", ""}

\* the capability ids that requests name: the first two of the session range,
\* an id that is never minted, the chat capability and the calculator's
SessionIds == {SESSION_CAPABILITY_START, SESSION_CAPABILITY_START + 1}
NeverMinted == {SESSION_CAPABILITY_START - 1}
CapIds == {CALCULATOR_CAP_ID, CHAT_CAPABILITY_ID} \cup SessionIds \cup NeverMinted

MethodNames ==
  {"auth", "redeemNickToken", "sendMessage", "receiveMessages", "registerNick",
   "identifyNick", "checkNick", "storeNickToken", "whoami", "log", "stats"}

\* Calls that cannot change the aggregate whatever the state: every method with
\* no argument (a read, or an argument error), on the chat capability, on the
\* first session id and on an id never minted, and some on every id; the
\* empty method name; a blank token; a token nobody stored; texts that are no
\* batch of the chat handler.
InertRequests ==
  {Batch(cap, method, <<>>) :
     cap \in {CHAT_CAPABILITY_ID, SESSION_CAPABILITY_START} \cup NeverMinted,
     method \in MethodNames \cup {""}}
  \cup {Batch(cap, method, <<>>) :
          cap \in CapIds, method \in {"whoami", "log", "stats", ""}}
  \cup {Batch(cap, "receiveMessages", <<Num(1)>>) : cap \in SessionIds}
  \cup {Batch(cap, "storeNickToken", <<Str(" ")>>) : cap \in SessionIds}
  \cup {Batch(CHAT_CAPABILITY_ID, "redeemNickToken", <<Str(tok)>>) : tok \in {" ", "nope"}}
  \cup {Shaped(Batch(CALCULATOR_CAP_ID, "add", <<Num(10), Num(20)>>), sh) :
          sh \in {"batch", "pullIdNotNumber", "oneLine", "badJson", "notArray", "wrongTag"}}
  \cup {Shaped(Batch(CHAT_CAPABILITY_ID, method, <<>>), "noArgs") : method \in {"auth", "stats"}}
  \cup {Shaped(Batch(CALCULATOR_CAP_ID, "add", <<>>), "noArgs")}

\* One successful call of every method that sets mutated.
MutatingRequests ==
  {Batch(CHAT_CAPABILITY_ID, "auth", <<Str("u")>>)}
  \cup {Batch(CHAT_CAPABILITY_ID, "redeemNickToken", <<Str(tok)>>) : tok \in {"t1", "constructor"}}
  \cup {Batch(cap, "sendMessage", <<Str("hi")>>) : cap \in SessionIds}
  \cup {Batch(cap, "storeNickToken", <<Str("t1")>>) : cap \in SessionIds}
  \cup {Batch(cap, method, <<Str("bob"), Str(p)>>) :
          cap \in SessionIds, method \in {"registerNick", "identifyNick"}, p \in {"pw"}}
  \cup {Batch(cap, "checkNick", <<Str(n)>>) : cap \in SessionIds, n \in {"bob", "constructor"}}

(***************************************************************************)
(* Spec: the batch path with every method and every kind of failure, over  *)
(* runs of at most MaxCalls dispatched batches.                            *)
(***************************************************************************)
Next ==
  /\ callCount < MaxCalls
  /\ \E req \in InertRequests \cup MutatingRequests : ProcessRpcBatch(req, {})

Spec == Init /\ [][Next]_vars

(***************************************************************************)
(* SpecNick: the nickname state machine on both paths, sessions of the     *)
(* batch path (guest-<id>) and of the WebSocket path (alice).              *)
(***************************************************************************)
NickRequests ==
  {Batch(CHAT_CAPABILITY_ID, "auth", <<Str("u")>>)}
  \cup {Batch(cap, method, <<Str("bob"), Str(p)>>) :
          cap \in SessionIds, method \in {"registerNick", "identifyNick"}, p \in Passwords}

NextNick ==
  \/ /\ callCount < MaxNickCalls
     /\ \E req \in NickRequests : ProcessRpcBatch(req, {})
  \/ WsAuth("alice", "default_password")
  \/ \E cap \in SessionIds, p \in Passwords : WsRegisterNick(cap, "bob", p)
  \/ \E cap \in SessionIds, p \in Passwords : WsIdentifyNick(cap, "bob", p)

SpecNick == Init /\ [][NextNick]_vars

(***************************************************************************)
(* SpecChat: messages on both paths, no broadcast member attached.         *)
(***************************************************************************)
ChatRequests ==
  {Batch(CHAT_CAPABILITY_ID, "auth", <<Str("u")>>)}
  \cup {Batch(cap, "sendMessage", <<Str(body)>>) : cap \in SessionIds, body \in Bodies}
  \cup {Batch(cap, "receiveMessages", <<>>) : cap \in SessionIds}
  \cup {Batch(SESSION_CAPABILITY_START, "registerNick", <<Str("bob"), Str("pw")>>)}

NextChat ==
  \/ /\ callCount < MaxChatCalls
     /\ \E req \in ChatRequests : ProcessRpcBatch(req, {})
  \/ WsSendMessage(SESSION_CAPABILITY_START, "hi", {})

SpecChat == Init /\ [][NextChat]_vars

(***************************************************************************)
(* SpecBroadcast: the broadcast hub.  Clients attach and break; any subset *)
(* of the members may fail a delivery of a message sent on either path.    *)
(***************************************************************************)
BroadcastRequests ==
  {Batch(CHAT_CAPABILITY_ID, "auth", <<Str("u")>>),
   Batch(SESSION_CAPABILITY_START, "sendMessage", <<Str("hi")>>)}

NextBroadcast ==
  \/ /\ callCount < MaxChatCalls
     /\ \E req \in BroadcastRequests, failing \in SUBSET ClientIds :
          ProcessRpcBatch(req, failing)
  \/ \E failing \in SUBSET ClientIds : WsSendMessage(SESSION_CAPABILITY_START, "hi", failing)
  \/ RegisterClient
  \/ RpcBroken

SpecBroadcast == Init /\ [][NextBroadcast]_vars

(***************************************************************************)
(* SpecCaps: every way a session capability is minted (auth on both paths, *)
(* redeemNickToken of a stored token and of a name every object inherits)  *)
(* and the calls that rewrite a sessionCaps entry.                         *)
(***************************************************************************)
CapRequests ==
  {Batch(CHAT_CAPABILITY_ID, "auth", <<Str("u")>>),
   Batch(SESSION_CAPABILITY_START, "storeNickToken", <<Str("t1")>>),
   Batch(SESSION_CAPABILITY_START, "registerNick", <<Str("bob"), Str("pw")>>)}
  \cup {Batch(CHAT_CAPABILITY_ID, "redeemNickToken", <<Str(tok)>>) :
          tok \in {"t1", "constructor"}}

NextCaps ==
  \/ /\ callCount < MaxCapCalls
     /\ \E req \in CapRequests : ProcessRpcBatch(req, {})
  \/ WsAuth("alice", "default_password")

SpecCaps == Init /\ [][NextCaps]_vars

(***************************************************************************)
(* SpecTokens: nickname tokens.  The batch dispatched when callCount = k   *)
(* stores the fresh token t<k>, so the tokens of a run are distinct; time  *)
(* may pass between any two calls.                                         *)
(***************************************************************************)
TokenName(k) == "t" \o ToString(k)

TokenRequests ==
  {Batch(CHAT_CAPABILITY_ID, "auth", <<Str("u")>>)}
  \cup {Batch(cap, "storeNickToken", <<Str(TokenName(callCount))>>) : cap \in SessionIds}

NextTokens ==
  \/ /\ callCount < MaxTokenCalls
     /\ \E req \in TokenRequests : ProcessRpcBatch(req, {})
  \/ Tick

SpecTokens == Init /\ [][NextTokens]_vars

(***************************************************************************)
(* SpecIdentity: the display identity of a session.  Several nicknames,    *)
(* the empty one among them, so that a session can claim one and then      *)
(* another; whoami and sendMessage show the identity.                      *)
(***************************************************************************)
Nicknames == {"bob", "ann", ""}

IdentityRequests ==
  {Batch(CHAT_CAPABILITY_ID, "auth", <<Str("u")>>)}
  \cup {Batch(cap, "registerNick", <<Str(n), Str("pw")>>) : cap \in SessionIds, n \in Nicknames}
  \cup {Batch(cap, "identifyNick", <<Str(n), Str(p)>>) :
          cap \in SessionIds, n \in Nicknames, p \in {"pw", "no"}}
  \cup {Batch(cap, "whoami", <<>>) : cap \in SessionIds}
  \cup {Batch(cap, "sendMessage", <<Str("hi")>>) : cap \in SessionIds}

NextIdentity ==
  /\ callCount < MaxIdentityCalls
  /\ \E req \in IdentityRequests : ProcessRpcBatch(req, {})

SpecIdentity == Init /\ [][NextIdentity]_vars

(***************************************************************************)
(* SpecStale: minting from a stored document whose nextSessionCapId was    *)
(* restored stale: not above the keys of sessionCaps, or below the floor.  *)
(***************************************************************************)
StaleKeys == SESSION_CAPABILITY_START..(SESSION_CAPABILITY_START + MaxSessions - 1)

\* a session minted before the counter was restored
StaleSession == [username |-> "old", displayName |-> Undefined]

\* the stored documents: no session and any counter, or sessions and a
\* counter not above the greatest of their keys
StaleStates ==
  {[DEFAULT_CHAT_STATE EXCEPT
      !.sessionCaps = [id \in keys |-> StaleSession],
      !.nextSessionCapId = counter,
      !.nickTokens = <<[token |-> "t1", username |-> "old", nickname |-> Undefined,
                        issuedAt |-> 0, lastUsed |-> 0]>>] :
     keys \in SUBSET StaleKeys,
     counter \in (SESSION_CAPABILITY_START - 1)..(SESSION_CAPABILITY_START + MaxSessions)}

InitStale ==
  /\ chatState \in {cs \in StaleStates :
                      \A id \in DOMAIN cs.sessionCaps : \E key \in DOMAIN cs.sessionCaps :
                         cs.nextSessionCapId <= key}
  /\ callCount = 0
  /\ lastRequest = NoValue
  /\ lastResponse = NoValue
  /\ clients = <<>>
  /\ now = 0
  /\ request = NoRequest
  /\ response = NoValue
  /\ effects = <<>>
  /\ deliveries = <<>>
  /\ pending = [slot \in Slots |-> NoPending]

StaleRequests ==
  {Batch(CHAT_CAPABILITY_ID, "auth", <<Str("u")>>),
   Batch(CHAT_CAPABILITY_ID, "redeemNickToken", <<Str("t1")>>),
   Batch(CHAT_CAPABILITY_ID, "redeemNickToken", <<Str("nope")>>)}

NextStale ==
  \/ /\ callCount < MaxStaleCalls
     /\ \E req \in StaleRequests : ProcessRpcBatch(req, {})
  \/ WsAuth("alice", "default_password")

SpecStale == InitStale /\ [][NextStale]_vars

(***************************************************************************)
(* SpecWs: the session-scoped methods of the WebSocket RPC target, on ids  *)
(* that are keys of sessionCaps and on ids that are not.                   *)
(***************************************************************************)
\* CapnWebDurable.receiveMessages
WsReceiveMessages(capabilityId) ==
  LET cs == WsLoadChatState(chatState)
      req == Rpc("receiveMessages", capabilityId, <<>>)
  IN IF UnknownSession(cs, capabilityId)
     THEN WsReadOnly(req, Throw("unknown session capability"))
     ELSE WsReadOnly(req, Return([messages |-> cs.messages]))

\* CapnWebDurable.whoami
WsWhoami(capabilityId) ==
  LET cs == WsLoadChatState(chatState)
      req == Rpc("whoami", capabilityId, <<>>)
  IN IF UnknownSession(cs, capabilityId)
     THEN WsReadOnly(req, Throw("unknown session capability"))
     ELSE WsReadOnly(req, Return([username |-> DisplayIdentity(cs.sessionCaps[capabilityId])]))

\* CapnWebDurable.checkNick
WsCheckNick(capabilityId, nickname) ==
  LET cs == WsLoadChatState(chatState)
      req == Rpc("checkNick", capabilityId, <<Str(nickname)>>)
  IN IF UnknownSession(cs, capabilityId)
     THEN WsReadOnly(req, Throw("unknown session capability"))
     ELSE WsReadOnly(req, Return([status |-> "ok",
                                  registered |-> Truthy(Get(cs.registeredNicks, nickname))]))

\* CapnWebDurable.log: the session is looked up for the label of the console
\* line only
WsLog(capabilityId, message) ==
  WsReadOnly(Rpc("log", capabilityId, <<Str(message)>>), Return([status |-> "ok"]))

\* the ids the WebSocket calls name: the first minted, and two never minted
WsCapIds == {SESSION_CAPABILITY_START, SESSION_CAPABILITY_START + MaxSessions + 1} \cup NeverMinted

NextWs ==
  \/ WsAuth("alice", "default_password")
  \/ \E cap \in WsCapIds : WsSendMessage(cap, "hi", {})
  \/ \E cap \in WsCapIds : WsReceiveMessages(cap)
  \/ \E cap \in WsCapIds : WsWhoami(cap)
  \/ \E cap \in WsCapIds : WsRegisterNick(cap, "bob", "pw")
  \/ \E cap \in WsCapIds, p \in Passwords : WsIdentifyNick(cap, "bob", p)
  \/ \E cap \in WsCapIds : WsCheckNick(cap, "bob")
  \/ \E cap \in WsCapIds : WsLog(cap, "x")

SpecWs == Init /\ [][NextWs]_vars

(***************************************************************************)
(* SpecStats: the stats batch on every capability id, with and without     *)
(* arguments, with a number and with a string as importId, between         *)
(* batches that set the diagnostics.                                       *)
(***************************************************************************)
StatsRequests ==
  {Batch(CHAT_CAPABILITY_ID, "auth", <<Str("u")>>),
   Batch(SESSION_CAPABILITY_START, "sendMessage", <<Str("hi")>>)}
  \cup {Shaped(Batch(cap, "stats", args), sh) :
          cap \in CapIds, args \in {<<>>, <<Num(1)>>}, sh \in {"batch", "pullIdNotNumber"}}
  \cup {Shaped(Batch(cap, "stats", <<>>), "noArgs") : cap \in CapIds}

NextStats ==
  /\ callCount < MaxStatsCalls
  /\ \E req \in StatsRequests : ProcessRpcBatch(req, {})

SpecStats == Init /\ [][NextStats]_vars

(***************************************************************************)
(* SpecFrame: sendMessage on both paths over an aggregate that holds       *)
(* sessions, a registered nickname and a nickname token, all written       *)
(* under the one storage key chatState.                                    *)
(***************************************************************************)
FrameRequests ==
  {Batch(CHAT_CAPABILITY_ID, "auth", <<Str("u")>>),
   Batch(SESSION_CAPABILITY_START, "registerNick", <<Str("bob"), Str("pw")>>),
   Batch(SESSION_CAPABILITY_START, "storeNickToken", <<Str("t1")>>),
   Batch(SESSION_CAPABILITY_START, "sendMessage", <<Str("hi")>>)}

NextFrame ==
  \/ /\ callCount < MaxFrameCalls
     /\ \E req \in FrameRequests : ProcessRpcBatch(req, {})
  \/ WsAuth("alice", "default_password")
  \/ WsSendMessage(SESSION_CAPABILITY_START, "hi", {})

SpecFrame == Init /\ [][NextFrame]_vars

(***************************************************************************)
(* SpecShared: nickname tokens of two users.  Each auth mints a session    *)
(* of its own guest username; both sessions store tokens drawn from the    *)
(* same two strings, and the tokens are redeemed.                          *)
(***************************************************************************)
SharedTokens == {"t1", "t2"}

SharedRequests ==
  {Batch(CHAT_CAPABILITY_ID, "auth", <<Str("u")>>)}
  \cup {Batch(cap, "storeNickToken", <<Str(token)>>) :
          cap \in SessionIds, token \in SharedTokens}
  \cup {Batch(CHAT_CAPABILITY_ID, "redeemNickToken", <<Str(token)>>) : token \in SharedTokens}

NextShared ==
  \/ /\ callCount < MaxSharedCalls
     /\ \E req \in SharedRequests : ProcessRpcBatch(req, {})
  \/ Tick

SpecShared == Init /\ [][NextShared]_vars

(***************************************************************************)
(* SpecLog: log(message) on both paths, on sessions minted and not.        *)
(***************************************************************************)
LogRequests ==
  {Batch(CHAT_CAPABILITY_ID, "auth", <<Str("u")>>)}
  \cup {Batch(cap, "log", <<Str(m)>>) : cap \in SessionIds, m \in Bodies}
  \cup {Batch(cap, "sendMessage", <<Str("hi")>>) : cap \in SessionIds}

NextLog ==
  \/ /\ callCount < MaxLogCalls
     /\ \E req \in LogRequests : ProcessRpcBatch(req, {})
  \/ \E cap \in SessionIds, m \in Bodies : WsLog(cap, m)

SpecLog == Init /\ [][NextLog]_vars

(***************************************************************************)
(* SpecPutFails: the storage write of chatState may be rejected.  The put  *)
(* of persistChatState then throws out of tryHandleChatBatch and out of    *)
(* processRpcBatch, which awaits the chat handler outside its try block,   *)
(* and handleRpc answers 400 with the message.                             *)
(***************************************************************************)
\* handleRpc: catch (error) -> new Response(JSON.stringify({error: message}), {status: 400})
HttpError(message) == [tag |-> "httpError", status |-> 400, message |-> message]

\* faulty variant of FailedPut: the rejected write left the new document
TornPut(stored, document) == document

\* await state.storage.put("chatState", JSON.stringify(chatState)) rejected:
\* the one put of the whole document did not happen
FailedPut(stored, document) == stored

\* processRpcBatch on a batch of the chat handler whose persistChatState throws
ProcessRpcBatchPutFails(req, failing) ==
  LET out == ChatCall(loadChatState(chatState), req.cap, req.method, req.args, now)
      sent == IF out.broadcast = <<>>
              THEN [clients |-> clients, deliveries |-> <<>>]
              ELSE broadcastMessage(clients, failing, out.broadcast[1])
  IN /\ ~StatsRecognizes(req)
     /\ ChatRecognizes(req)
     /\ PersistIf(out.mutated)
     /\ (out.broadcast = <<>> => failing = {})
     /\ request' = req
     /\ response' = HttpError("storage put rejected")
     /\ chatState' = FailedPut(chatState, out.state)
     /\ clients' = sent.clients
     /\ deliveries' = sent.deliveries
     /\ effects' = <<"get chatState">>
           \o (IF out.broadcast = <<>> THEN <<>> ELSE <<"broadcast">>)
           \o <<"put chatState throws">>
     /\ UNCHANGED <<callCount, lastRequest, lastResponse, now, pending>>

PutFailRequests ==
  {Batch(CHAT_CAPABILITY_ID, "auth", <<Str("u")>>),
   Batch(CHAT_CAPABILITY_ID, "redeemNickToken", <<Str("t1")>>),
   Batch(SESSION_CAPABILITY_START, "sendMessage", <<Str("hi")>>),
   Batch(SESSION_CAPABILITY_START, "storeNickToken", <<Str("t1")>>),
   Batch(SESSION_CAPABILITY_START, "registerNick", <<Str("bob"), Str("pw")>>),
   Batch(SESSION_CAPABILITY_START + 1, "identifyNick", <<Str("bob"), Str("pw")>>)}

NextPutFails ==
  \/ /\ callCount < MaxFailCalls
     /\ \E req \in PutFailRequests : ProcessRpcBatch(req, {})
  \/ \E req \in PutFailRequests, failing \in SUBSET ClientIds :
       ProcessRpcBatchPutFails(req, failing)
  \/ clients = <<>> /\ RegisterClient

SpecPutFails == Init /\ [][NextPutFails]_vars

(***************************************************************************)
(* SpecNormalize: normalizeChatState on a parsed document of unknown       *)
(* shape.  A JSON value is [k, s, n, items]: k its kind, s the text of a   *)
(* string, n the value of a number, items the elements of an array or the  *)
(* [key, val] entries of an object in insertion order.  normalizeChatState *)
(* above is this function on the documents persistChatState writes.        *)
(***************************************************************************)
JMissing == [k |-> "missing", s |-> "", n |-> 0, items |-> <<>>]
JNull == [k |-> "null", s |-> "", n |-> 0, items |-> <<>>]
JStr(s) == [k |-> "string", s |-> s, n |-> 0, items |-> <<>>]
JNum(n) == [k |-> "number", s |-> "", n |-> n, items |-> <<>>]
JArr(items) == [k |-> "array", s |-> "", n |-> 0, items |-> items]
JObj(entries) == [k |-> "object", s |-> "", n |-> 0, items |-> entries]
Entry(key, val) == [key |-> key, val |-> val]

\* v && typeof v === "object"
IsObject(v) == v.k \in {"object", "array"}

\* Object.entries(v): of an array, its elements under their indices
Entries(v) ==
  IF v.k = "object" THEN v.items
  ELSE IF v.k = "array"
  THEN [i \in 1..Len(v.items) |-> Entry(ToString(i - 1), v.items[i])]
  ELSE <<>>

\* v[name]
Prop(v, name) ==
  LET e == Entries(v)
      at == {i \in 1..Len(e) : e[i].key = name}
  IN IF at = {} THEN JMissing ELSE e[CHOOSE i \in at : TRUE].val

\* for (const [key, value] of Object.entries(field)) if (typeof value === "string") out[key] = value
StringEntries(base, v) ==
  LET e == IF IsObject(v) THEN Entries(v) ELSE <<>>
      keys == {e[i].key : i \in {j \in 1..Len(e) : e[j].val.k = "string"}}
  IN [key \in DOMAIN base \cup keys |->
        IF key \in keys THEN Prop(v, key).s ELSE base[key]]

\* if (entry && typeof entry === "object") ... if (from && body)
KeepsMessage(entry) ==
  /\ IsObject(entry)
  /\ Prop(entry, "from").k = "string" /\ Prop(entry, "from").s # ""
  /\ Prop(entry, "body").k = "string" /\ Prop(entry, "body").s # ""

\* the messages field
MessagesOf(v, t) ==
  IF v.k # "array" THEN DEFAULT_CHAT_STATE.messages
  ELSE LET kept == SelectSeq(v.items, KeepsMessage)
       IN [i \in 1..Len(kept) |->
             [from |-> Prop(kept[i], "from").s,
              body |-> Prop(kept[i], "body").s,
              timestamp |-> IF Prop(kept[i], "timestamp").k = "number"
                            THEN Prop(kept[i], "timestamp").n ELSE t]]

\* the nextSessionCapId field
NextSessionCapIdOf(v) ==
  IF v.k = "number" THEN Max(SESSION_CAPABILITY_START, v.n)
  ELSE DEFAULT_CHAT_STATE.nextSessionCapId

\* if (value && typeof value === "object") ... if (typeof username === "string")
KeepsSession(value) == IsObject(value) /\ Prop(value, "username").k = "string"

\* the sessionCaps field
SessionCapsOf(v) ==
  LET e == IF IsObject(v) THEN Entries(v) ELSE <<>>
      keys == {e[i].key : i \in {j \in 1..Len(e) : KeepsSession(e[j].val)}}
  IN [key \in keys |->
        [username |-> Prop(Prop(v, key), "username").s,
         displayName |-> IF Prop(Prop(v, key), "displayName").k = "string"
                         THEN Prop(Prop(v, key), "displayName").s ELSE Undefined]]

\* if (value && typeof value === "object") ... if (!username) continue
KeepsToken(e) ==
  /\ IsObject(e.val)
  /\ Prop(e.val, "username").k = "string" /\ Prop(e.val, "username").s # ""

\* the nickTokens field
NickTokensOf(v, t) ==
  LET kept == SelectSeq(IF IsObject(v) THEN Entries(v) ELSE <<>>, KeepsToken)
  IN [i \in 1..Len(kept) |->
        [token |-> kept[i].key,
         username |-> Prop(kept[i].val, "username").s,
         nickname |-> IF Prop(kept[i].val, "nickname").k = "string"
                         /\ Prop(kept[i].val, "nickname").s # ""
                      THEN Prop(kept[i].val, "nickname").s ELSE Undefined,
         issuedAt |-> IF Prop(kept[i].val, "issuedAt").k = "number"
                      THEN Prop(kept[i].val, "issuedAt").n ELSE t,
         lastUsed |-> IF Prop(kept[i].val, "lastUsed").k = "number"
                      THEN Prop(kept[i].val, "lastUsed").n ELSE NoTime]]

\* normalizeChatState(parsed) of an object parsed, at Date.now() = t
normalizeUnknown(source, t) ==
  [credentials |-> StringEntries(DefaultCredentials, source.credentials),
   messages |-> MessagesOf(source.messages, t),
   nextSessionCapId |-> NextSessionCapIdOf(source.nextSessionCapId),
   sessionCaps |-> SessionCapsOf(source.sessionCaps),
   registeredNicks |-> StringEntries(EmptyMap, source.registeredNicks),
   nickOwners |-> StringEntries(EmptyMap, source.nickOwners),
   nickTokens |-> NickTokensOf(source.nickTokens, t)]

Fields ==
  {"credentials", "messages", "nextSessionCapId", "sessionCaps",
   "registeredNicks", "nickOwners", "nickTokens"}

\* entries of the stored document
JMessage(from, body, timestamp) ==
  JObj(<<Entry("from", from), Entry("body", body), Entry("timestamp", timestamp)>>)
JSession(username, displayName) ==
  JObj(<<Entry("username", username), Entry("displayName", displayName)>>)
JToken(username, nickname) ==
  JObj(<<Entry("username", username), Entry("nickname", nickname),
         Entry("issuedAt", JNum(0))>>)

\* a document as persistChatState writes it
WellFormed ==
  [credentials |-> JObj(<<Entry("dave", JStr("pw"))>>),
   messages |-> JArr(<<JMessage(JStr("u"), JStr("hi"), JNum(0))>>),
   nextSessionCapId |-> JNum(SESSION_CAPABILITY_START + 1),
   sessionCaps |-> JObj(<<Entry("10000", JSession(JStr("u"), JStr("bob")))>>),
   registeredNicks |-> JObj(<<Entry("bob", JStr("pw"))>>),
   nickOwners |-> JObj(<<Entry("bob", JStr("u"))>>),
   nickTokens |-> JObj(<<Entry("t1", JToken(JStr("u"), JStr("bob")))>>)]

\* a field that is missing or of the wrong type
WrongValues == {JMissing, JNull, JStr("junk"), JNum(5), JArr(<<JNum(1), JStr("a")>>)}

\* a field of the right type with entries of every kind
MixedValues(field) ==
  CASE field = "messages" ->
         {JArr(<<JNum(5), JMessage(JStr("u"), JStr("hi"), JNum(0)),
                 JMessage(JStr("u"), JMissing, JNum(0)),
                 JMessage(JStr("v"), JStr("yo"), JStr("late"))>>),
          JArr(<<JMessage(JStr("u"), JStr(""), JNum(0)),
                 JMessage(JStr("u"), JStr("hi"), JNum(0))>>),
          JObj(<<Entry("0", JMessage(JStr("u"), JStr("hi"), JNum(0)))>>)}
    [] field = "sessionCaps" ->
         {JObj(<<Entry("10000", JSession(JStr("u"), JMissing)),
                 Entry("10001", JStr("junk")),
                 Entry("10002", JSession(JNum(1), JStr("bob"))),
                 Entry("10003", JSession(JStr(""), JNum(1)))>>)}
    [] field = "nickTokens" ->
         {JObj(<<Entry("t1", JToken(JStr("u"), JStr("bob"))),
                 Entry("t2", JStr("junk")),
                 Entry("t3", JToken(JMissing, JStr("bob"))),
                 Entry("t4", JToken(JStr("v"), JStr("")))>>),
          JObj(<<Entry("t1", JToken(JStr(""), JStr("bob")))>>)}
    [] field = "nextSessionCapId" -> {JNum(5), JNum(SESSION_CAPABILITY_START + 2)}
    [] OTHER ->
         {JObj(<<Entry("bob", JStr("pw")), Entry("ann", JNum(1)), Entry("cat", JStr(""))>>)}

FieldValues(field) == {WellFormed[field]} \cup WrongValues \cup MixedValues(field)

\* the fields of document that are not as persistChatState wrote them
Corrupted(document) == {field \in Fields : document[field] # WellFormed[field]}

InitNormalize ==
  /\ chatState = WellFormed
  /\ callCount = 0
  /\ lastRequest = NoValue
  /\ lastResponse = NoValue
  /\ clients = <<>>
  /\ now = 0
  /\ request = NoRequest
  /\ response = NoValue
  /\ effects = <<>>
  /\ deliveries = <<>>
  /\ pending = [slot \in Slots |-> NoPending]

\* the stored document differs in field; loadChatState then normalizes it
LoadWith(field, value) ==
  LET document == [chatState EXCEPT ![field] = value]
  IN /\ Cardinality(Corrupted(document)) <= MaxCorrupt
     /\ chatState' = document
     /\ request' = [via |-> "load", field |-> field]
     /\ response' = [tag |-> "normalized", value |-> normalizeUnknown(document, now)]
     /\ effects' = <<"get chatState">>
     /\ UNCHANGED <<callCount, lastRequest, lastResponse, clients, now, deliveries, pending>>

NextNormalize ==
  \/ \E field \in Fields : \E value \in FieldValues(field) : LoadWith(field, value)
  \/ Tick

SpecNormalize == InitNormalize /\ [][NextNormalize]_vars

(***************************************************************************)
(* SpecCodec: the wire line of a result envelope.  JSON.stringify turns a  *)
(* value into a text, here the sequence of its JSON tokens; JSON.parse     *)
(* reads such a sequence back into a value.                                *)
(***************************************************************************)
JTrue == [k |-> "true", s |-> "", n |-> 0, items |-> <<>>]
JFalse == [k |-> "false", s |-> "", n |-> 0, items |-> <<>>]
\* the number a sum of two finite doubles overflows to
JInfinity == [k |-> "infinity", s |-> "", n |-> 0, items |-> <<>>]

Token(t) == [t |-> t, s |-> "", n |-> 0]
StrToken(s) == [t |-> "str", s |-> s, n |-> 0]
NumToken(n) == [t |-> "num", s |-> "", n |-> n]

RECURSIVE JSONStringify(_)
RECURSIVE StringifyElements(_, _)
RECURSIVE StringifyMembers(_, _)

\* the elements of an array from index i on; undefined is written null
StringifyElements(items, i) ==
  IF i > Len(items) THEN <<>>
  ELSE (IF i > 1 THEN <<Token(",")>> ELSE <<>>)
       \o (IF items[i].k = "missing" THEN <<Token("null")>> ELSE JSONStringify(items[i]))
       \o StringifyElements(items, i + 1)

\* the members of an object, entries being those whose value is not undefined
StringifyMembers(entries, i) ==
  IF i > Len(entries) THEN <<>>
  ELSE (IF i > 1 THEN <<Token(",")>> ELSE <<>>)
       \o <<StrToken(entries[i].key), Token(":")>>
       \o JSONStringify(entries[i].val)
       \o StringifyMembers(entries, i + 1)

\* JSON.stringify(v)
JSONStringify(v) ==
  CASE v.k = "string" -> <<StrToken(v.s)>>
    [] v.k = "number" -> <<NumToken(v.n)>>
    [] v.k \in {"true", "false"} -> <<Token(v.k)>>
    [] v.k \in {"null", "infinity"} -> <<Token("null")>>
    [] v.k = "array" -> <<Token("[")>> \o StringifyElements(v.items, 1) \o <<Token("]")>>
    [] v.k = "object" ->
         <<Token("{")>>
         \o StringifyMembers(SelectSeq(v.items, LAMBDA e : e.val.k # "missing"), 1)
         \o <<Token("}")>>
    [] OTHER -> <<>>

RECURSIVE ParseValue(_)
RECURSIVE ParseElements(_, _)
RECURSIVE ParseMembers(_, _)

\* the elements of an array up to its closing bracket
ParseElements(tokens, items) ==
  IF Head(tokens).t = "]" THEN [value |-> JArr(items), rest |-> Tail(tokens)]
  ELSE LET from == IF Head(tokens).t = "," THEN Tail(tokens) ELSE tokens
           element == ParseValue(from)
       IN ParseElements(element.rest, Append(items, element.value))

\* the members of an object up to its closing brace
ParseMembers(tokens, entries) ==
  IF Head(tokens).t = "}" THEN [value |-> JObj(entries), rest |-> Tail(tokens)]
  ELSE LET from == IF Head(tokens).t = "," THEN Tail(tokens) ELSE tokens
           member == ParseValue(Tail(Tail(from)))
       IN ParseMembers(member.rest, Append(entries, Entry(Head(from).s, member.value)))

\* one value at the head of tokens, and the tokens after it
ParseValue(tokens) ==
  LET head == Head(tokens)
  IN CASE head.t = "str" -> [value |-> JStr(head.s), rest |-> Tail(tokens)]
       [] head.t = "num" -> [value |-> JNum(head.n), rest |-> Tail(tokens)]
       [] head.t = "true" -> [value |-> JTrue, rest |-> Tail(tokens)]
       [] head.t = "false" -> [value |-> JFalse, rest |-> Tail(tokens)]
       [] head.t = "null" -> [value |-> JNull, rest |-> Tail(tokens)]
       [] head.t = "[" -> ParseElements(Tail(tokens), <<>>)
       [] head.t = "{" -> ParseMembers(Tail(tokens), <<>>)

\* JSON.parse(line)
JSONParse(line) == ParseValue(line).value

JCapability(id) == JObj(<<Entry("_type", JStr("capability")), Entry("id", JNum(id))>>)
JStored(message) ==
  JObj(<<Entry("from", JStr(message.from)), Entry("body", JStr(message.body)),
         Entry("timestamp", JNum(message.timestamp))>>)

\* payloadResult.value of the chat handler, method by method
ChatValues ==
  {JObj(<<Entry("session", JCapability(id)), Entry("user", JStr(user))>>) :
     id \in SessionIds, user \in {"u", "guest-10000"}}
  \cup {JObj(<<Entry("status", JStr("ok")), Entry("session", JCapability(id)),
               Entry("user", user), Entry("nickname", user)>>) :
          id \in SessionIds, user \in {JStr("u"), JMissing}}
  \cup {JObj(<<Entry("status", JStr("ok")), Entry("echo", JStr(body))>>) : body \in Bodies}
  \cup {JObj(<<Entry("messages", JArr([i \in 1..n |->
                  JStored([from |-> "u", body |-> "hi", timestamp |-> i])]))>>) :
          n \in 0..MaxMessages}
  \cup {JObj(<<Entry("username", JStr(name))>>) : name \in {"u", "bob"}}
  \cup {JObj(<<Entry("status", JStr("ok")), Entry("registered", flag)>>) :
          flag \in {JTrue, JFalse}}
  \cup {JObj(<<Entry("status", JStr(status)), Entry("message", JStr("Nickname token stored"))>>) :
          status \in {"ok", "error"}}

\* the stats of tryHandleStatsBatch
StatsValues ==
  {JObj(<<Entry("callCount", JNum(count)), Entry("lastRequest", last),
          Entry("lastResponse", last)>>) :
     count \in 0..MaxCalls, last \in {JNull, JStr("[\"pull\",7]")}}

\* the result of handleCalculatorCall: a sum, or the overflow of one
CalculatorValues == {JNum(0), JNum(30), JInfinity}

\* ["result", importId, value] as each handler builds it: the chat and the
\* stats handler take a number as importId, the calculator whatever pullOp[1] is
Replies ==
  {JArr(<<JStr("result"), JNum(id), value>>) : id \in {0, 1, 7}, value \in ChatValues}
  \cup {JArr(<<JStr("result"), JNum(id), value>>) : id \in {1, 7}, value \in StatsValues}
  \cup {JArr(<<JStr("result"), id, value>>) :
          id \in {JNum(7), JStr("x"), JNull, JMissing}, value \in CalculatorValues}

\* const responseLine = JSON.stringify(reply)
EncodeReply(reply) ==
  /\ request' = [via |-> "codec", reply |-> reply]
  /\ response' = [tag |-> "line", line |-> JSONStringify(reply)]
  /\ UNCHANGED <<chatState, callCount, lastRequest, lastResponse, clients, now,
                 effects, deliveries, pending>>

\* the receiver parses the line
DecodeLine ==
  /\ request.via = "codec"
  /\ response.tag = "line"
  /\ response' = [tag |-> "decoded", value |-> JSONParse(response.line)]
  /\ UNCHANGED <<chatState, callCount, lastRequest, lastResponse, clients, now,
                 request, effects, deliveries, pending>>

NextCodec ==
  \/ \E reply \in Replies : EncodeReply(reply)
  \/ DecodeLine

SpecCodec == Init /\ [][NextCodec]_vars

(***************************************************************************)
(* SpecOverlap: sendMessage requests that overlap.  A request runs without *)
(* interruption up to the await of a delivery to a broadcast member; while *)
(* it is suspended there the object takes the next request.  A storage     *)
(* operation is not a point at which another request enters.               *)
(***************************************************************************)
\* the text sent by the request in slot
TextOf(slot) == "m" \o ToString(slot)

\* tryHandleChatBatch, case "sendMessage", up to await server.broadcastMessage:
\* the aggregate is loaded and the message pushed in memory only
BatchSendSuspend(slot) ==
  LET req == Batch(SESSION_CAPABILITY_START, "sendMessage", <<Str(TextOf(slot))>>)
      out == ChatCall(loadChatState(chatState), req.cap, req.method, req.args, now)
  IN /\ pending[slot].pc = "idle"
     /\ clients # <<>>
     /\ out.broadcast # <<>>
     /\ WithinBounds(out)
     /\ pending' = [pending EXCEPT ![slot] = [pc |-> "broadcast", req |-> req, out |-> out,
                                             answer |-> NoValue, held |-> FALSE]]
     /\ UNCHANGED <<chatState, callCount, lastRequest, lastResponse, clients, now,
                    request, response, effects, deliveries>>

\* tryHandleChatBatch from the deliveries on: persistChatState of the aggregate
\* loaded before the suspension, the counters, the reply
BatchSendResume(slot, failing) ==
  LET p == pending[slot]
      sent == broadcastMessage(clients, failing, p.out.broadcast[1])
      reply == Reply(p.req.importId, AfterBroadcast(p.out.result, sent.deliveries))
  IN /\ p.pc = "broadcast"
     /\ p.req.via = "batch"
     /\ chatState' = IF PersistIf(p.out.mutated) THEN p.out.state ELSE chatState
     /\ clients' = sent.clients
     /\ deliveries' = sent.deliveries
     /\ effects' = <<"get chatState", "broadcast">>
           \o (IF PersistIf(p.out.mutated) THEN <<"put chatState">> ELSE <<>>)
           \o CountPuts
     /\ request' = p.req
     /\ response' = reply
     /\ callCount' = NextCount(callCount)
     /\ lastRequest' = p.req
     /\ lastResponse' = reply
     /\ pending' = [pending EXCEPT ![slot].pc = "done", ![slot].answer = reply]
     /\ UNCHANGED now

\* CapnWebDurable.sendMessage up to the first await clientStub.receiveMessage:
\* the aggregate is loaded, the message pushed and the aggregate persisted
WsSendSuspend(slot) ==
  LET cs == WsLoadChatState(chatState)
      capabilityId == SESSION_CAPABILITY_START
      req == Rpc("sendMessage", capabilityId, <<Str(TextOf(slot))>>)
      newMessage == [from |-> DisplayIdentity(cs.sessionCaps[capabilityId]),
                     body |-> TextOf(slot), timestamp |-> now]
  IN /\ pending[slot].pc = "idle"
     /\ clients # <<>>
     /\ ~UnknownSession(cs, capabilityId)
     /\ Len(cs.messages) < MaxMessages
     /\ chatState' = [cs EXCEPT !.messages = PushMessage(@, newMessage)]
     /\ pending' = [pending EXCEPT ![slot] = [pc |-> "broadcast", req |-> req,
                       out |-> [broadcast |-> <<newMessage>>], answer |-> NoValue,
                       held |-> FALSE]]
     /\ UNCHANGED <<callCount, lastRequest, lastResponse, clients, now,
                    request, response, effects, deliveries>>

\* CapnWebDurable.sendMessage from the deliveries on
WsSendResume(slot, failing) ==
  LET p == pending[slot]
      sent == DeliverTo(clients, clients, failing, p.out.broadcast[1])
  IN /\ p.pc = "broadcast"
     /\ p.req.via = "ws"
     /\ request' = p.req
     /\ response' = Return([status |-> "ok", echo |-> p.req.args[1].s])
     /\ clients' = sent.clients
     /\ deliveries' = sent.deliveries
     /\ effects' = <<"get chatState", "put chatState", "broadcast">>
     /\ pending' = [pending EXCEPT ![slot].pc = "done", ![slot].answer = response']
     /\ UNCHANGED <<chatState, callCount, lastRequest, lastResponse, now>>

NextOverlap ==
  \/ /\ callCount < 1
     /\ ProcessRpcBatch(Batch(CHAT_CAPABILITY_ID, "auth", <<Str("u")>>), {})
  \/ RegisterClient
  \/ RpcBroken
  \/ Tick
  \/ \E slot \in Slots : BatchSendSuspend(slot)
  \/ \E slot \in Slots, failing \in SUBSET ClientIds : BatchSendResume(slot, failing)
  \/ \E slot \in Slots : WsSendSuspend(slot)
  \/ \E slot \in Slots, failing \in SUBSET ClientIds : WsSendResume(slot, failing)

SpecOverlap == Init /\ [][NextOverlap]_vars

(***************************************************************************)
(* SpecMint: capability-minting requests in flight together.  The awaits   *)
(* of auth and redeemNickToken are storage operations only (the load and   *)
(* the write of chatState, the counters); the host holds a request that    *)
(* arrives while another is suspended at one of them until that one has    *)
(* run to completion.                                                      *)
(***************************************************************************)
\* the host's mailbox: a request is started when no other request is suspended
GateOpen == \A s \in Slots : pending[s].pc # "persist"

\* CapnWebDurable.auth from the loaded chatState, in the form of ChatCall
WsAuthCall(cs, args) ==
  LET sessionCapId == ProbeSessionCapId(cs.sessionCaps, cs.nextSessionCapId)
  IN IF args[2].s # "default_password"
     THEN Unmutated(cs, Failure("invalid credentials"))
     ELSE Mutated(
            [cs EXCEPT !.nextSessionCapId = NextAfter(sessionCapId),
                       !.sessionCaps = Put(@, sessionCapId,
                           [username |-> args[1].s, displayName |-> args[1].s])],
            Success([session |-> Capability(sessionCapId), user |-> args[1].s]))

MintRequests ==
  {Batch(CHAT_CAPABILITY_ID, "auth", <<Str("u")>>),
   Batch(CHAT_CAPABILITY_ID, "redeemNickToken", <<Str("t1")>>),
   Rpc("auth", 0, <<Str("alice"), Str("default_password")>>)}

\* the request reaches the object
MintArrive(slot, req) ==
  /\ pending[slot].pc = "idle"
  /\ pending' = [pending EXCEPT ![slot] = [NoPending EXCEPT !.pc = "queued", !.req = req]]
  /\ UNCHANGED <<chatState, callCount, lastRequest, lastResponse, clients, now,
                 request, response, effects, deliveries>>

\* the request finds another one suspended and waits in the mailbox
MintHeld(slot) ==
  /\ pending[slot].pc = "queued"
  /\ ~pending[slot].held
  /\ ~GateOpen
  /\ pending' = [pending EXCEPT ![slot].held = TRUE]
  /\ UNCHANGED <<chatState, callCount, lastRequest, lastResponse, clients, now,
                 request, response, effects, deliveries>>

\* the handler runs from the loaded chatState up to the await of the write
MintLoad(slot) ==
  LET req == pending[slot].req
      out == IF req.via = "batch"
             THEN ChatCall(loadChatState(chatState), req.cap, req.method, req.args, now)
             ELSE WsAuthCall(WsLoadChatState(chatState), req.args)
  IN /\ pending[slot].pc = "queued"
     /\ GateOpen
     /\ out.state.nextSessionCapId <= SESSION_CAPABILITY_START + MaxMintSessions
     /\ pending' = [pending EXCEPT ![slot].pc = "persist", ![slot].out = out]
     /\ UNCHANGED <<chatState, callCount, lastRequest, lastResponse, clients, now,
                    request, response, effects, deliveries>>

\* the write, the counters of the batch path, and the answer
MintPersist(slot) ==
  LET p == pending[slot]
      batch == p.req.via = "batch"
      reply == IF batch THEN Reply(p.req.importId, p.out.result)
               ELSE IF p.out.result.success THEN Return(p.out.result.value)
               ELSE Throw(p.out.result.message)
  IN /\ p.pc = "persist"
     /\ chatState' = IF PersistIf(p.out.mutated) THEN p.out.state ELSE chatState
     /\ request' = p.req
     /\ response' = reply
     /\ deliveries' = <<>>
     /\ effects' = <<"get chatState">>
           \o (IF PersistIf(p.out.mutated) THEN <<"put chatState">> ELSE <<>>)
           \o (IF batch THEN CountPuts ELSE <<>>)
     /\ callCount' = IF batch THEN NextCount(callCount) ELSE callCount
     /\ lastRequest' = IF batch THEN p.req ELSE lastRequest
     /\ lastResponse' = IF batch THEN reply ELSE lastResponse
     /\ pending' = [pending EXCEPT ![slot].pc = "done", ![slot].answer = reply]
     /\ UNCHANGED <<clients, now>>

NextMint ==
  \/ /\ callCount < 1
     /\ ProcessRpcBatch(Batch(CHAT_CAPABILITY_ID, "auth", <<Str("u")>>), {})
  \/ /\ GateOpen
     /\ chatState # NoValue
     /\ chatState.nickTokens = <<>>
     /\ ProcessRpcBatch(Batch(SESSION_CAPABILITY_START, "storeNickToken", <<Str("t1")>>), {})
  \/ \E slot \in Slots, req \in MintRequests : MintArrive(slot, req)
  \/ \E slot \in Slots : MintHeld(slot)
  \/ \E slot \in Slots : MintLoad(slot)
  \/ \E slot \in Slots : MintPersist(slot)

SpecMint == Init /\ [][NextMint]_vars

(***************************************************************************)
(* SpecOrder: the deliveries of overlapping sendMessage requests, one      *)
(* receiveMessage call at a time.  The loop over Array.from(this.clients)  *)
(* issues the call to a member and is suspended until that call has        *)
(* returned; which of two suspended requests resumes first is up to the    *)
(* members.  Here deliveries is not reset between the requests: it holds   *)
(* the receiveMessage calls of all of them in the order they were issued.  *)
(***************************************************************************)
\* clientStub.receiveMessage(message) is called on member c
Issue(log, c, message) == Append(log, [client |-> c, message |-> message, ok |-> TRUE])

\* sendMessage up to the first await clientStub.receiveMessage: on the
\* WebSocket path the aggregate has been persisted, on the batch path the
\* message is in the in-memory aggregate only
OrderSendStart(slot, via) ==
  LET capabilityId == SESSION_CAPABILITY_START
      batch == via = "batch"
      req == IF batch THEN Batch(capabilityId, "sendMessage", <<Str(TextOf(slot))>>)
             ELSE Rpc("sendMessage", capabilityId, <<Str(TextOf(slot))>>)
      cs == IF batch THEN loadChatState(chatState) ELSE WsLoadChatState(chatState)
      newMessage == [from |-> DisplayIdentity(cs.sessionCaps[capabilityId]),
                     body |-> TextOf(slot), timestamp |-> now]
      out == IF batch THEN ChatCall(cs, req.cap, req.method, req.args, now)
             ELSE [state |-> [cs EXCEPT !.messages = PushMessage(@, newMessage)],
                   mutated |-> TRUE,
                   result |-> Success([status |-> "ok", echo |-> TextOf(slot)]),
                   broadcast |-> <<newMessage>>]
  IN /\ pending[slot].pc = "idle"
     /\ clients # <<>>
     /\ ~UnknownSession(cs, capabilityId)
     /\ Len(cs.messages) < MaxMessages
     /\ chatState' = IF batch THEN chatState ELSE out.state
     /\ deliveries' = Issue(deliveries, Head(clients), out.broadcast[1])
     /\ pending' = [pending EXCEPT ![slot] =
                      [NoPending EXCEPT !.pc = "broadcast", !.req = req,
                         !.out = [state |-> out.state, mutated |-> out.mutated,
                                  result |-> out.result, broadcast |-> out.broadcast,
                                  snapshot |-> clients]]]
     /\ UNCHANGED <<callCount, lastRequest, lastResponse, clients, now,
                    request, response, effects>>

\* the awaited call has returned and the loop calls the next member
OrderSendNext(slot) ==
  LET p == pending[slot]
      rest == Tail(p.out.snapshot)
  IN /\ p.pc = "broadcast"
     /\ rest # <<>>
     /\ deliveries' = Issue(deliveries, Head(rest), p.out.broadcast[1])
     /\ pending' = [pending EXCEPT ![slot].out.snapshot = rest]
     /\ UNCHANGED <<chatState, callCount, lastRequest, lastResponse, clients, now,
                    request, response, effects>>

\* the call to the last member has returned: the batch path persists its
\* aggregate and the counters, both paths answer
OrderSendFinish(slot) ==
  LET p == pending[slot]
      batch == p.req.via = "batch"
      reply == IF batch THEN Reply(p.req.importId, p.out.result)
               ELSE Return(p.out.result.value)
  IN /\ p.pc = "broadcast"
     /\ Tail(p.out.snapshot) = <<>>
     /\ chatState' = IF batch /\ PersistIf(p.out.mutated) THEN p.out.state ELSE chatState
     /\ request' = p.req
     /\ response' = reply
     /\ effects' = IF batch
                   THEN <<"get chatState", "broadcast", "put chatState">> \o CountPuts
                   ELSE <<"get chatState", "put chatState", "broadcast">>
     /\ callCount' = IF batch THEN NextCount(callCount) ELSE callCount
     /\ lastRequest' = IF batch THEN p.req ELSE lastRequest
     /\ lastResponse' = IF batch THEN reply ELSE lastResponse
     /\ pending' = [pending EXCEPT ![slot].pc = "done", ![slot].answer = reply]
     /\ UNCHANGED <<clients, now, deliveries>>

NextOrder ==
  \/ /\ callCount < 1
     /\ deliveries = <<>>
     /\ ProcessRpcBatch(Batch(CHAT_CAPABILITY_ID, "auth", <<Str("u")>>), {})
  \/ deliveries = <<>> /\ RegisterClient
  \/ \E slot \in Slots, via \in {"batch", "ws"} : OrderSendStart(slot, via)
  \/ \E slot \in Slots : OrderSendNext(slot)
  \/ \E slot \in Slots : OrderSendFinish(slot)

SpecOrder == Init /\ [][NextOrder]_vars

(***************************************************************************)
(* SpecOthers: the session-scoped calls of one session next to another     *)
(* session, on both paths: sessions of the batch path (guest-<id>) and of  *)
(* the WebSocket path (alice), nicknames claimed by one and by both.       *)
(***************************************************************************)
OtherRequests ==
  {Batch(CHAT_CAPABILITY_ID, "auth", <<Str("u")>>)}
  \cup {Batch(cap, method, <<Str("bob"), Str("pw")>>) :
          cap \in SessionIds, method \in {"registerNick", "identifyNick"}}
  \cup {Batch(SESSION_CAPABILITY_START + 1, "storeNickToken", <<Str("t1")>>),
        Batch(SESSION_CAPABILITY_START + 1, "sendMessage", <<Str("hi")>>),
        Batch(SESSION_CAPABILITY_START + 1, "whoami", <<>>),
        Batch(SESSION_CAPABILITY_START + 1, "checkNick", <<Str("bob")>>)}

NextOthers ==
  \/ /\ callCount < MaxOtherCalls
     /\ \E req \in OtherRequests : ProcessRpcBatch(req, {})
  \/ WsAuth("alice", "default_password")
  \/ WsRegisterNick(SESSION_CAPABILITY_START, "ann", "pw")
  \/ \E cap \in SessionIds : WsIdentifyNick(cap, "bob", "pw")
  \/ WsSendMessage(SESSION_CAPABILITY_START, "hi", {})

SpecOthers == Init /\ [][NextOthers]_vars

(***************************************************************************)
(* Properties.                                                             *)
(***************************************************************************)
Range(s) == {s[i] : i \in 1..Len(s)}

\* the value a response carries: of ["result", id, value] on the batch path,
\* the returned value on the WebSocket path; NoValue for an error or a throw
Payload(resp) == IF resp.tag \in {"result", "return"} THEN resp.value ELSE NoValue

\* the tokens of nickTokens bound to username
TokensOf(nickTokens, username) ==
  {nickTokens[i].token : i \in {j \in 1..Len(nickTokens) : nickTokens[j].username = username}}

\* C1 (as stated): in the batch dispatcher, for every capability id that is
\* neither the chat id nor a key of sessionCaps, and for every method name and
\* argument list, the response is ["error", importId, {message: "unknown
\* session capability"}] and the persisted chatState is unchanged.
C1_AnyMethodOnUnknownCapability ==
  [][(/\ request'.via = "batch"
      /\ request'.shape = "batch"
      /\ request'.cap # CHAT_CAPABILITY_ID
      /\ request'.cap \notin DOMAIN loadChatState(chatState).sessionCaps)
     => /\ response' = Error(request'.importId, "unknown session capability")
        /\ chatState' = chatState]_vars

\* C1 (amended): the same for every well-formed batch whose method name is
\* non-empty and is not "stats": the chat handler declines the empty name (the
\* answer is then an error with import id 0 from the calculator path) and
\* "stats" is answered by the stats handler, which runs first and does not
\* look at the capability id.
C1_UnknownCapability ==
  [][(/\ request'.via = "batch"
      /\ request'.shape = "batch"
      /\ request'.cap # CHAT_CAPABILITY_ID
      /\ request'.cap \notin DOMAIN loadChatState(chatState).sessionCaps
      /\ Truthy(request'.method)
      /\ request'.method # "stats")
     => /\ response' = Error(request'.importId, "unknown session capability")
        /\ chatState' = chatState]_vars

\* C1 witness: with a session minted, sendMessage on an id of the session
\* range that was never minted has been answered with the error envelope.
C1_UnknownCapabilityReached ==
  /\ request.via = "batch"
  /\ request.method = "sendMessage"
  /\ Len(request.args) = 1
  /\ chatState # NoValue
  /\ DOMAIN chatState.sessionCaps # {}
  /\ request.cap \in SessionIds \ DOMAIN chatState.sessionCaps
  /\ response = Error(request.importId, "unknown session capability")

\* C2: once nickname n has been registered (with any password), every later
\* registerNick(n, p2) on any session returns {status: "error", message:
\* "Nickname already registered"} and leaves registeredNicks[n], nickOwners[n]
\* and the caller's displayName as they were.
C2_ReRegisterRejected ==
  [][LET cs == loadChatState(chatState)
         after == loadChatState(chatState')
         req == request'
     IN (/\ req.via \in {"batch", "ws"}
         /\ req.method = "registerNick"
         /\ req.cap \in DOMAIN cs.sessionCaps
         /\ req.args[1].s \in DOMAIN cs.registeredNicks)
        => /\ Payload(response') =
                [status |-> "error", message |-> "Nickname already registered"]
           /\ after.registeredNicks[req.args[1].s] = cs.registeredNicks[req.args[1].s]
           /\ after.nickOwners[req.args[1].s] = cs.nickOwners[req.args[1].s]
           /\ after.sessionCaps[req.cap].displayName = cs.sessionCaps[req.cap].displayName]_vars

\* C3: identifyNick(n, p) on a session with username u, n registered and p
\* equal to the stored password, returns status ok, sets nickOwners[n] to u
\* and the session's displayName to n.
C3_IdentifyTransfersOwnership ==
  [][LET cs == loadChatState(chatState)
         after == loadChatState(chatState')
         req == request'
     IN (/\ req.via \in {"batch", "ws"}
         /\ req.method = "identifyNick"
         /\ req.cap \in DOMAIN cs.sessionCaps
         /\ req.args[1].s \in DOMAIN cs.registeredNicks
         /\ req.args[2].s = cs.registeredNicks[req.args[1].s])
        => /\ Payload(response') # NoValue
           /\ Payload(response').status = "ok"
           /\ after.nickOwners[req.args[1].s] = cs.sessionCaps[req.cap].username
           /\ after.sessionCaps[req.cap].displayName = req.args[1].s]_vars

\* C4: sendMessage(text) on a valid session, for any string text, appends
\* exactly one entry to messages, with body = text and from = the session's
\* display identity, leaves the earlier entries and their order unchanged and
\* returns {status: "ok", echo: text}.
C4_SendAppendsOneEntry ==
  [][LET cs == loadChatState(chatState)
         after == loadChatState(chatState')
         req == request'
     IN (/\ req.via \in {"batch", "ws"}
         /\ req.method = "sendMessage"
         /\ req.cap \in DOMAIN cs.sessionCaps
         /\ Len(req.args) = 1
         /\ req.args[1].t = "string")
        => /\ Payload(response') = [status |-> "ok", echo |-> req.args[1].s]
           /\ Len(after.messages) = Len(cs.messages) + 1
           /\ SubSeq(after.messages, 1, Len(cs.messages)) = cs.messages
           /\ after.messages[Len(after.messages)].body = req.args[1].s
           /\ after.messages[Len(after.messages)].from =
                DisplayIdentity(cs.sessionCaps[req.cap])]_vars

\* C5: a broadcast attempts delivery exactly once to every client that is a
\* member when it starts, in the order of the member set; a member whose
\* delivery throws is removed, delivery goes on to the members after it, and
\* the members whose delivery succeeded stay.
C5_BroadcastDeliversToEveryMember ==
  [][(/\ request'.via \in {"batch", "ws"}
      /\ request'.method = "sendMessage"
      /\ chatState' # chatState)
     => /\ Len(deliveries') = Len(clients)
        /\ \A i \in 1..Len(clients) :
             /\ deliveries'[i].client = clients[i]
             /\ deliveries'[i].message =
                  chatState'.messages[Len(chatState'.messages)]
             /\ deliveries'[i].ok <=> clients[i] \in Range(clients')
        /\ Range(clients') \subseteq Range(clients)]_vars

\* C5 witness: a broadcast to two members in which the first delivery threw
\* and the second succeeded: the first is gone, the second is still a member.
C5_DeliveryAfterFailureReached ==
  /\ Len(deliveries) = 2
  /\ ~deliveries[1].ok
  /\ deliveries[2].ok
  /\ clients = <<deliveries[2].client>>

\* the methods that set mutated when they succeed
WritingMethods ==
  {"auth", "redeemNickToken", "sendMessage", "registerNick", "identifyNick", "storeNickToken"}

\* the call was answered with an error envelope or a result carrying status "error"
FailedCall(resp) ==
  \/ resp.tag = "error"
  \/ /\ "status" \in DOMAIN Payload(resp)
     /\ Payload(resp).status = "error"

\* C6 (as stated): the chatState key is written during a batch only when the
\* operation changed the aggregate.
C6_WrittenOnlyWhenChanged ==
  [][(request'.via = "batch" /\ "put chatState" \in Range(effects'))
     => loadChatState(chatState') # loadChatState(chatState)]_vars

\* C6 (amended): the chatState key is written during a batch only by a
\* successful auth, redeemNickToken, sendMessage, registerNick, identifyNick
\* or storeNickToken (which write even when the document they write equals
\* the stored one); receiveMessages, whoami, checkNick and every failed call
\* perform no write, and without a write the stored document is unchanged.
C6_WrittenOnlyBySuccessfulMutation ==
  [][request'.via = "batch"
     => /\ "put chatState" \in Range(effects')
             => (request'.method \in WritingMethods /\ ~FailedCall(response'))
        /\ "put chatState" \notin Range(effects') => chatState' = chatState]_vars

\* C6 witness: receiveMessages answered from a stored aggregate without a write.
C6_ReadWithoutWriteReached ==
  /\ request.via = "batch"
  /\ request.method = "receiveMessages"
  /\ response.tag = "result"
  /\ chatState # NoValue
  /\ effects = <<"get chatState">> \o CountPuts

\* C7: every key of sessionCaps is an integer >= SESSION_CAPABILITY_START
\* and nextSessionCapId is strictly greater than every key of sessionCaps, in
\* the stored document and in the aggregate loaded from it.
C7_SessionKeysBelowCounter ==
  chatState # NoValue =>
    /\ \A id \in DOMAIN chatState.sessionCaps :
         /\ id \in Int
         /\ id >= SESSION_CAPABILITY_START
         /\ id < chatState.nextSessionCapId
    /\ \A id \in DOMAIN loadChatState(chatState).sessionCaps :
         /\ id >= SESSION_CAPABILITY_START
         /\ id < loadChatState(chatState).nextSessionCapId

\* C7 witness: a second session has just been minted by redeemNickToken.
C7_RedeemedSessionReached ==
  /\ request.via = "batch"
  /\ request.method = "redeemNickToken"
  /\ "status" \in DOMAIN Payload(response)
  /\ Payload(response).status = "ok"
  /\ Cardinality(DOMAIN loadChatState(chatState).sessionCaps) >= 2

\* C8: a capability id that is a key of sessionCaps stays a key in every
\* later state, the username bound to it never changes, and no later auth or
\* redeemNickToken returns that id again.
C8_MintedIdsKeepTheirMeaning ==
  [][chatState # NoValue =>
       \A id \in DOMAIN chatState.sessionCaps :
         /\ id \in DOMAIN chatState'.sessionCaps
         /\ chatState'.sessionCaps[id].username = chatState.sessionCaps[id].username
         /\ "session" \in DOMAIN Payload(response') => Payload(response').session.id # id]_vars

\* C9: for every username the number of nickTokens entries bound to that
\* username is at most 5.
C9_AtMostFiveTokensPerUser ==
  chatState # NoValue =>
    \A i \in 1..Len(chatState.nickTokens) :
      Cardinality({j \in 1..Len(chatState.nickTokens) :
                     chatState.nickTokens[j].username = chatState.nickTokens[i].username})
        <= TOKENS_KEPT

\* C9 witness: a token has just been stored for a user who held five, and
\* five are left.
C9_PrunedToFiveReached ==
  /\ request.via = "batch"
  /\ request.method = "storeNickToken"
  /\ Payload(response) = [status |-> "ok", message |-> "Nickname token stored"]
  /\ callCount = TOKENS_KEPT + 2
  /\ \E u \in {GuestName(id) : id \in SessionIds} :
       /\ Cardinality(TokensOf(chatState.nickTokens, u)) = TOKENS_KEPT
       /\ TokenName(1) \notin TokensOf(chatState.nickTokens, u)
       /\ TokenName(TOKENS_KEPT + 1) \in TokensOf(chatState.nickTokens, u)

\* C10: after storeNickToken has succeeded six times with six distinct tokens
\* for the same username, timestamps non-decreasing and possibly equal, exactly
\* five entries of that username remain, those of the five most recent calls;
\* in particular the token of the latest call is present.  (The batch at
\* callCount = 6 that finds five tokens of the caller is its sixth store: the
\* six batches before it are one auth and five stores.)
C10_SixthStoreKeepsFiveMostRecent ==
  [][LET cs == loadChatState(chatState)
         after == loadChatState(chatState')
         req == request'
     IN (/\ callCount = TOKENS_KEPT + 1
         /\ callCount' = callCount + 1
         /\ req.method = "storeNickToken"
         /\ req.cap \in DOMAIN cs.sessionCaps
         /\ Cardinality(TokensOf(cs.nickTokens, cs.sessionCaps[req.cap].username)) = TOKENS_KEPT)
        => /\ Payload(response') = [status |-> "ok", message |-> "Nickname token stored"]
           /\ TokensOf(after.nickTokens, cs.sessionCaps[req.cap].username) =
                {TokenName(k) : k \in 2..(TOKENS_KEPT + 1)}]_vars

\* the methods of the switch on the chat capability and of the switch on a session
GlobalMethods == {"auth", "redeemNickToken"}
SessionMethods ==
  {"sendMessage", "receiveMessages", "registerNick", "identifyNick", "checkNick",
   "storeNickToken", "whoami"}

\* the argument list has not the count or the types the method expects
WrongArguments(req) ==
  CASE req.method \in {"auth", "redeemNickToken", "sendMessage", "checkNick", "storeNickToken"} ->
         ~(Len(req.args) = 1 /\ IsStringArg(req.args, 1))
    [] req.method \in {"registerNick", "identifyNick"} ->
         ~(Len(req.args) = 2 /\ IsStringArg(req.args, 1) /\ IsStringArg(req.args, 2))
    [] req.method = "receiveMessages" -> Len(req.args) # 0
    [] OTHER -> FALSE

\* a failure of the dispatch: unknown capability, session method on the chat
\* capability, unknown method name, wrong argument count or type
DispatchFailure(cs, req) ==
  IF req.cap = CHAT_CAPABILITY_ID
  THEN req.method \notin GlobalMethods \/ WrongArguments(req)
  ELSE \/ req.cap \notin DOMAIN cs.sessionCaps
       \/ req.method \notin SessionMethods
       \/ WrongArguments(req)

\* a failure of the domain: registerNick of a registered nickname, identifyNick
\* of an unregistered nickname or with a wrong password, redeemNickToken of a
\* token that is no key of nickTokens
DomainFailure(cs, req) ==
  /\ ~DispatchFailure(cs, req)
  /\ \/ /\ req.method = "registerNick"
        /\ req.args[1].s \in DOMAIN cs.registeredNicks
     \/ /\ req.method = "identifyNick"
        /\ \/ req.args[1].s \notin DOMAIN cs.registeredNicks
           \/ cs.registeredNicks[req.args[1].s] # req.args[2].s
     \/ /\ req.method = "redeemNickToken"
        /\ Truthy(Trim(req.args[1].s))
        /\ TokenIndex(cs.nickTokens, Trim(req.args[1].s)) = 0

\* C11: a domain failure is answered with {status: "error", message} inside a
\* ["result", importId, ...] envelope and a dispatch-level failure with an
\* ["error", importId, {message}] envelope, never the other way round.
C11_FailureKindsKeepTheirForm ==
  [][(request'.via = "batch" /\ ChatRecognizes(request') /\ ~StatsRecognizes(request'))
     => LET cs == loadChatState(chatState)
        IN /\ DomainFailure(cs, request')
                => /\ response'.tag = "result"
                   /\ "status" \in DOMAIN Payload(response')
                   /\ Payload(response').status = "error"
           /\ DispatchFailure(cs, request')
                => /\ response'.tag = "error"
                   /\ response'.importId = request'.importId]_vars

\* C12: for every input made of a push line and a pull line with a numeric
\* importId, processRpcBatch returns ["result", importId, value] or
\* ["error", importId, {message}] with the importId of the pull operation.
C12_ResponseCarriesImportId ==
  [][(/\ request'.via = "batch"
      /\ PushPullShape(request')
      /\ request'.importId.t = "number")
     => /\ response'.tag \in {"result", "error"}
        /\ response'.importId = request'.importId]_vars

\* C13: for an input that is not two lines holding a JSON ["push", ["call",
\* <number>, [<string>, ...], <array>]] and a JSON ["pull", <number>], the chat
\* handler returns null without throwing and without reading or writing
\* chatState or the counters, and the next handler is tried: the input is
\* answered by the calculator path, whose successful call is the only writer
\* of the counters.
C13_MalformedInputFallsThrough ==
  [][(/\ request'.via = "batch"
      /\ request'.shape # "batch"
      /\ ~StatsRecognizes(request'))
     => /\ "get chatState" \notin Range(effects')
        /\ "put chatState" \notin Range(effects')
        /\ chatState' = chatState
        /\ response'.tag \in {"result", "error"}
        /\ \/ /\ response'.tag = "error"
              /\ response'.importId = Num(0)
              /\ effects' = <<>>
              /\ UNCHANGED <<callCount, lastRequest, lastResponse>>
           \/ /\ request'.cap = CALCULATOR_CAP_ID
              /\ response' = Result(request'.importId, Num(30))
              /\ effects' = CountPuts
              /\ callCount' = callCount + 1]_vars

\* C13 witness: with an aggregate and counters stored, a one-line input has
\* been answered by the fallback with nothing read or written.
C13_OneLineInputReached ==
  /\ request.via = "batch"
  /\ request.shape = "oneLine"
  /\ response = Error(Num(0), "Unsupported operation")
  /\ effects = <<>>
  /\ chatState # NoValue
  /\ callCount > 0

\* C14: identifyNick(n, p) where n is not registered, or where p differs from
\* the stored password, returns a {status: "error"} value and leaves
\* registeredNicks, nickOwners, the caller's displayName and the persisted
\* chatState unchanged.
C14_FailedIdentifyChangesNothing ==
  [][LET cs == loadChatState(chatState)
         after == loadChatState(chatState')
         req == request'
     IN (/\ req.via \in {"batch", "ws"}
         /\ req.method = "identifyNick"
         /\ req.cap \in DOMAIN cs.sessionCaps
         /\ \/ req.args[1].s \notin DOMAIN cs.registeredNicks
            \/ cs.registeredNicks[req.args[1].s] # req.args[2].s)
        => /\ "status" \in DOMAIN Payload(response')
           /\ Payload(response').status = "error"
           /\ after.registeredNicks = cs.registeredNicks
           /\ after.nickOwners = cs.nickOwners
           /\ after.sessionCaps[req.cap].displayName = cs.sessionCaps[req.cap].displayName
           /\ chatState' = chatState]_vars

\* C14 witness: identifyNick with a wrong password on a registered nickname,
\* by a session that does not own it, has been refused.
C14_WrongPasswordRefusedReached ==
  /\ request.via \in {"batch", "ws"}
  /\ request.method = "identifyNick"
  /\ Payload(response) = [status |-> "error", message |-> "Invalid password"]
  /\ chatState # NoValue
  /\ request.cap \in DOMAIN chatState.sessionCaps
  /\ request.args[1].s \in DOMAIN chatState.nickOwners
  /\ chatState.nickOwners[request.args[1].s] # chatState.sessionCaps[request.cap].username

\* C15: redeemNickToken(token) on the chat capability: if token is a key of
\* nickTokens it mints a capability id that was no key of sessionCaps, bound to
\* the token's username with displayName the token's nickname (the username
\* when it has none), sets the token's lastUsed, keeps the token entry and
\* returns status ok with that capability; if the token is unknown or empty it
\* returns {status: "error"} in a result envelope and changes nothing.
C15_RedeemMintsOrRefuses ==
  [][LET cs == loadChatState(chatState)
         after == loadChatState(chatState')
         req == request'
     IN (/\ req.via = "batch"
         /\ req.method = "redeemNickToken"
         /\ req.cap = CHAT_CAPABILITY_ID
         /\ Len(req.args) = 1
         /\ req.args[1].t = "string")
        => LET i == TokenIndex(cs.nickTokens, req.args[1].s)
               value == Payload(response')
           IN IF i # 0
              THEN /\ response'.tag = "result"
                   /\ value.status = "ok"
                   /\ value.session.id \notin DOMAIN cs.sessionCaps
                   /\ value.session.id \in DOMAIN after.sessionCaps
                   /\ after.sessionCaps[value.session.id] =
                        [username |-> cs.nickTokens[i].username,
                         displayName |-> Coalesce(cs.nickTokens[i].nickname,
                                                  cs.nickTokens[i].username)]
                   /\ \A id \in DOMAIN cs.sessionCaps : after.sessionCaps[id] = cs.sessionCaps[id]
                   /\ TokenIndex(after.nickTokens, req.args[1].s) # 0
                   /\ after.nickTokens[TokenIndex(after.nickTokens, req.args[1].s)] =
                        [cs.nickTokens[i] EXCEPT !.lastUsed = now]
              ELSE /\ response'.tag = "result"
                   /\ "status" \in DOMAIN value
                   /\ value.status = "error"
                   /\ chatState' = chatState]_vars

\* the call of request req on session id succeeded in claiming a nickname
ClaimSucceeded(req, resp, id) ==
  /\ req.method \in {"registerNick", "identifyNick"}
  /\ req.cap = id
  /\ "status" \in DOMAIN Payload(resp)
  /\ Payload(resp).status = "ok"

\* C16: after a successful registerNick(n, p) or identifyNick(n, p) on a
\* session its displayName is n; every other call (failed attempts included)
\* leaves the displayName of the session as it is, so it stays n until the
\* next successful claim on that session and never goes back to none; whoami
\* on the session returns its displayName and the message that a sendMessage
\* of the session writes carries it as from.
C16_DisplayIdentityFollowsClaims ==
  [][request'.via = "batch" =>
       LET cs == loadChatState(chatState)
           after == loadChatState(chatState')
           req == request'
       IN \A id \in DOMAIN cs.sessionCaps :
            /\ id \in DOMAIN after.sessionCaps
            /\ IF ClaimSucceeded(req, response', id)
               THEN after.sessionCaps[id].displayName = req.args[1].s
               ELSE after.sessionCaps[id].displayName = cs.sessionCaps[id].displayName
            /\ (req.method = "whoami" /\ req.cap = id /\ cs.sessionCaps[id].displayName # Undefined)
                 => Payload(response') = [username |-> cs.sessionCaps[id].displayName]
            /\ (req.method = "sendMessage" /\ req.cap = id /\ cs.sessionCaps[id].displayName # Undefined)
                 => /\ Len(chatState'.messages) = Len(cs.messages) + 1
                    /\ chatState'.messages[Len(chatState'.messages)].from =
                         cs.sessionCaps[id].displayName]_vars

\* C16 witness: a session that claimed bob and then ann is told by whoami
\* that it is ann.
C16_SecondClaimShownReached ==
  /\ request.via = "batch"
  /\ request.method = "whoami"
  /\ Payload(response) = [username |-> "ann"]
  /\ chatState # NoValue
  /\ request.cap \in DOMAIN chatState.sessionCaps
  /\ "bob" \in DOMAIN chatState.nickOwners
  /\ chatState.nickOwners["bob"] = chatState.sessionCaps[request.cap].username

\* C17: receiveMessages on a valid session returns, oldest first, exactly the
\* messages appended by the earlier successful sendMessage calls, one entry
\* per call with the body sent and the sender's display identity, across load
\* and persist cycles, and changes no state.  Step by step: receiveMessages
\* returns the messages of the aggregate it loads and writes nothing; a
\* successful sendMessage makes the loaded messages longer by exactly its
\* entry; no other call changes the loaded messages.
C17_ReceiveReturnsEverySentMessage ==
  [][LET cs == loadChatState(chatState)
         after == loadChatState(chatState')
         req == request'
     IN (req.via \in {"batch", "ws"} /\ req.cap \in DOMAIN cs.sessionCaps)
        => /\ (req.method = "receiveMessages" /\ Len(req.args) = 0)
                => /\ Payload(response') = [messages |-> cs.messages]
                   /\ chatState' = chatState
           /\ IF /\ req.method = "sendMessage"
                 /\ "status" \in DOMAIN Payload(response')
                 /\ Payload(response').status = "ok"
              THEN /\ Len(after.messages) = Len(cs.messages) + 1
                   /\ SubSeq(after.messages, 1, Len(cs.messages)) = cs.messages
                   /\ after.messages[Len(after.messages)].body = req.args[1].s
                   /\ after.messages[Len(after.messages)].from =
                        DisplayIdentity(cs.sessionCaps[req.cap])
              ELSE after.messages = cs.messages]_vars

\* C18: checkNick(n) on a valid session returns registered = true exactly
\* when n has been registered by an earlier successful registerNick (n is a
\* key of registeredNicks), and it changes no state.
C18_CheckNickTellsRegistration ==
  [][LET cs == loadChatState(chatState)
         req == request'
     IN (/\ req.via = "batch"
         /\ req.method = "checkNick"
         /\ req.cap \in DOMAIN cs.sessionCaps
         /\ Len(req.args) = 1
         /\ req.args[1].t = "string")
        => /\ Payload(response') =
                [status |-> "ok", registered |-> req.args[1].s \in DOMAIN cs.registeredNicks]
           /\ chatState' = chatState]_vars

(***************************************************************************)
(* C19: when a sendMessage batch is dispatched the aggregate is persisted  *)
(* and the call counter is incremented before the message is broadcast: no *)
(* member is sent a message that has not yet been written to the persisted *)
(* chatState.                                                              *)
(***************************************************************************)
Before(ops, a, b) ==
  \E i \in DOMAIN ops : /\ ops[i] = a
                        /\ \A j \in DOMAIN ops : ops[j] = b => i < j

C19_PersistedBeforeBroadcast ==
  [][(/\ request'.via = "batch" /\ request'.method = "sendMessage"
      /\ deliveries' # <<>>)
     => /\ Before(effects', "put chatState", "broadcast")
        /\ Before(effects', "put callCount", "broadcast")]_vars

(***************************************************************************)
(* C20: every batch that a handler answers with the request's importId,    *)
(* other than a stats batch, increments callCount by exactly 1 and sets    *)
(* lastRequest to the request payload and lastResponse to the response     *)
(* line returned; a stats batch and an input answered by the fallback      *)
(* leave callCount, lastRequest and lastResponse unchanged; callCount      *)
(* never decreases.                                                        *)
(***************************************************************************)
CountersSet(req, resp) ==
  /\ callCount' = callCount + 1
  /\ lastRequest' = req
  /\ lastResponse' = resp

C20_CountersFollowDispatch ==
  [][/\ callCount' >= callCount
     /\ request'.via = "batch"
        => IF StatsRecognizes(request')
           THEN /\ response'.tag = "result"
                /\ UNCHANGED <<callCount, lastRequest, lastResponse>>
           ELSE IF response'.importId = request'.importId
           THEN CountersSet(request', response')
           ELSE UNCHANGED <<callCount, lastRequest, lastResponse>>]_vars

\* C20 as stated: every batch answered with a result envelope increments
\* callCount by exactly 1 and sets lastRequest and lastResponse; an input no
\* handler recognizes leaves the three unchanged; callCount never decreases.
C20_EveryDispatchedBatchCounted ==
  [][/\ callCount' >= callCount
     /\ request'.via = "batch"
        => IF response'.tag = "result"
           THEN CountersSet(request', response')
           ELSE response'.importId # request'.importId
                => UNCHANGED <<callCount, lastRequest, lastResponse>>]_vars

\* C20 witness: after counted calls a stats batch has been answered with the
\* counters of the earlier call, which it left as they were.
C20_StatsLeftCountersReached ==
  /\ request.via = "batch"
  /\ request.method = "stats"
  /\ response.tag = "result"
  /\ response.value = [callCount |-> callCount, lastRequest |-> lastRequest,
                       lastResponse |-> lastResponse]
  /\ callCount > 1
  /\ lastRequest # request

(***************************************************************************)
(* C21: a sendMessage on a valid session returns {status: "ok", echo:      *)
(* text} and its message is appended to the persisted chatState whatever   *)
(* subset of the broadcast deliveries fail, all of them included.          *)
(***************************************************************************)
\* the step handles a request: a step of the hub or of the clock changes
\* nothing but clients or now
Handled ==
  <<chatState, callCount, lastRequest, lastResponse, request, response, effects, deliveries>>'
    # <<chatState, callCount, lastRequest, lastResponse, request, response, effects, deliveries>>

C21_BroadcastFailureKeepsSuccess ==
  [][LET cs == loadChatState(chatState)
         req == request'
     IN (/\ Handled
         /\ req.via \in {"batch", "ws"}
         /\ req.method = "sendMessage"
         /\ req.cap \in DOMAIN cs.sessionCaps
         /\ Len(req.args) = 1 /\ req.args[1].t = "string")
        => /\ Payload(response') = [status |-> "ok", echo |-> req.args[1].s]
           /\ Len(chatState'.messages) = Len(cs.messages) + 1
           /\ chatState'.messages[Len(chatState'.messages)].body = req.args[1].s
           /\ \A i \in 1..Len(cs.messages) : chatState'.messages[i] = cs.messages[i]]_vars

\* C21 witness: a sendMessage whose every delivery threw, to two members, was
\* answered ok and its message is the last of the persisted messages.
C21_AllDeliveriesFailedReached ==
  /\ request.via \in {"batch", "ws"}
  /\ request.method = "sendMessage"
  /\ Len(deliveries) = 2
  /\ \A i \in 1..Len(deliveries) : ~deliveries[i].ok
  /\ clients = <<>>
  /\ Payload(response) = [status |-> "ok", echo |-> "hi"]
  /\ chatState.messages[Len(chatState.messages)].body = "hi"

(***************************************************************************)
(* C22: when sendMessage requests on a valid session overlap, once all of  *)
(* them have returned ok every one of their messages is in the persisted   *)
(* messages sequence, which holds exactly those messages as after some     *)
(* serial execution of the requests.                                       *)
(***************************************************************************)
AllReturned ==
  \A slot \in Slots : /\ pending[slot].pc = "done"
                      /\ Payload(pending[slot].answer) =
                           [status |-> "ok", echo |-> TextOf(slot)]

C22_OverlappingSendsSerialize ==
  AllReturned
  => LET messages == loadChatState(chatState).messages
     IN /\ Len(messages) = MaxOverlap
        /\ \A slot \in Slots : \E i \in 1..Len(messages) : messages[i].body = TextOf(slot)

(***************************************************************************)
(* C23: if the storage write of chatState fails during a mutating request  *)
(* the request ends in an error, the aggregate the next request loads is   *)
(* the one from before the failed request, and callCount, lastRequest and  *)
(* lastResponse are not advanced.                                          *)
(***************************************************************************)
C23_FailedWriteLeavesAggregate ==
  [][(request'.via = "batch" /\ "put chatState throws" \in Range(effects'))
     => /\ request'.method \in WritingMethods
        /\ response'.tag = "httpError"
        /\ loadChatState(chatState') = loadChatState(chatState)
        /\ UNCHANGED <<callCount, lastRequest, lastResponse>>]_vars

\* C23 witness: on a session with nothing sent yet a sendMessage whose write
\* was rejected ended in an error after its message had been delivered to a
\* member; the stored aggregate holds no message and the counters stand.
C23_RejectedSendReached ==
  /\ request.via = "batch"
  /\ request.method = "sendMessage"
  /\ response.tag = "httpError"
  /\ "put chatState throws" \in Range(effects)
  /\ Len(deliveries) > 0
  /\ deliveries[1].ok
  /\ SESSION_CAPABILITY_START \in DOMAIN loadChatState(chatState).sessionCaps
  /\ loadChatState(chatState).messages = <<>>
  /\ callCount = 1

(***************************************************************************)
(* C24: normalizeChatState coerces each field of the stored document by    *)
(* itself: whatever one field holds, every other field normalizes to what  *)
(* it did before; and within a field every entry of the expected types is  *)
(* kept, in order, and every other entry is dropped.                       *)
(***************************************************************************)
\* an entry of messages whose from and body are strings
ValidMessage(entry) ==
  /\ IsObject(entry)
  /\ Prop(entry, "from").k = "string"
  /\ Prop(entry, "body").k = "string"

\* an entry of nickTokens that is an object whose username is a string
ValidToken(e) == IsObject(e.val) /\ Prop(e.val, "username").k = "string"

\* the keys of the entries of an object field that test
KeysWhere(v, test(_)) ==
  {Entries(v)[i].key : i \in {j \in 1..Len(Entries(v)) : test(Entries(v)[j])}}

OtherFieldsKeep(before, after, field) ==
  \A other \in Fields \ {field} : after[other] = before[other]

ValidEntriesKept(document, after) ==
  /\ document.messages.k = "array"
     => LET valid == SelectSeq(document.messages.items, ValidMessage)
        IN /\ Len(after.messages) = Len(valid)
           /\ \A i \in 1..Len(after.messages) :
                i <= Len(valid)
                => /\ after.messages[i].from = Prop(valid[i], "from").s
                   /\ after.messages[i].body = Prop(valid[i], "body").s
  /\ \A field \in {"registeredNicks", "nickOwners"} :
       document[field].k = "object"
       => DOMAIN after[field] = KeysWhere(document[field], LAMBDA e : e.val.k = "string")
  /\ document.sessionCaps.k = "object"
     => DOMAIN after.sessionCaps = KeysWhere(document.sessionCaps, LAMBDA e : KeepsSession(e.val))
  /\ document.nickTokens.k = "object"
     => {after.nickTokens[i].token : i \in 1..Len(after.nickTokens)}
          = KeysWhere(document.nickTokens, ValidToken)

C24_FieldsNormalizeIndependently ==
  [][(request'.via = "load" /\ now' = now)
     => /\ OtherFieldsKeep(normalizeUnknown(chatState, now), response'.value, request'.field)
        /\ ValidEntriesKept(chatState', response'.value)]_vars

(***************************************************************************)
(* C25: log(message) on a session capability that resolves returns a       *)
(* success result, on the batch path and on the WebSocket path, and        *)
(* changes no chat state.                                                  *)
(***************************************************************************)
C25_LogAlwaysSucceeds ==
  [][(/\ request'.via \in {"batch", "ws"}
      /\ request'.method = "log"
      /\ request'.cap \in DOMAIN loadChatState(chatState).sessionCaps)
     => /\ response'.tag \in {"result", "return"}
        /\ chatState' = chatState]_vars

(***************************************************************************)
(* C26: encoding a result envelope ["result", importId, value] to its wire *)
(* line and decoding that line recovers the same importId and the same     *)
(* value, nested objects and arrays included, for every value a handler    *)
(* returns.                                                                *)
(***************************************************************************)
C26_ResultEnvelopeRoundTrips ==
  (request.via = "codec" /\ response.tag = "decoded")
  => /\ response.value.k = "array"
     /\ Len(response.value.items) = 3
     /\ response.value.items[2] = request.reply.items[2]
     /\ response.value.items[3] = request.reply.items[3]

(***************************************************************************)
(* C27: from any normalized stored state, one whose nextSessionCapId is    *)
(* not above the keys of sessionCaps included, auth and redeemNickToken    *)
(* mint the smallest id >= nextSessionCapId that is no key of sessionCaps, *)
(* leave every existing session entry as it was, and set nextSessionCapId  *)
(* to the minted id + 1.                                                   *)
(***************************************************************************)
C27_MintProbesPastExistingKeys ==
  [][(/\ request'.method \in {"auth", "redeemNickToken"}
      /\ "session" \in DOMAIN Payload(response'))
     => LET cs == loadChatState(chatState)
            id == Payload(response').session.id
        IN /\ id >= cs.nextSessionCapId
           /\ id \notin DOMAIN cs.sessionCaps
           /\ \A below \in cs.nextSessionCapId..(id - 1) : below \in DOMAIN cs.sessionCaps
           /\ id \in DOMAIN chatState'.sessionCaps
           /\ \A key \in DOMAIN cs.sessionCaps :
                /\ key \in DOMAIN chatState'.sessionCaps
                /\ chatState'.sessionCaps[key] = cs.sessionCaps[key]
           /\ chatState'.nextSessionCapId = id + 1]_vars

\* C27 witness: the first call, on a document whose counter was not above
\* the key of its one session, minted the id after that key and left the
\* session as it was.
C27_ExistingKeySkippedReached ==
  /\ request.via = "batch"
  /\ request.method \in {"auth", "redeemNickToken"}
  /\ callCount = 1
  /\ "session" \in DOMAIN Payload(response)
  /\ Payload(response).session.id = SESSION_CAPABILITY_START + 1
  /\ chatState.sessionCaps[SESSION_CAPABILITY_START] = StaleSession
  /\ chatState.nextSessionCapId = SESSION_CAPABILITY_START + 2

(***************************************************************************)
(* C28: each session-scoped method of the WebSocket RPC target             *)
(* (sendMessage, receiveMessages, whoami, registerNick, identifyNick,      *)
(* checkNick, log), called with a capability id that is no key of          *)
(* sessionCaps, fails with "unknown session capability" and writes nothing *)
(* to storage.                                                             *)
(***************************************************************************)
WsSessionMethods ==
  {"sendMessage", "receiveMessages", "whoami", "registerNick", "identifyNick",
   "checkNick", "log"}

C28_WsUnknownSessionRefused ==
  [][(/\ request'.via = "ws"
      /\ request'.method \in WsSessionMethods
      /\ request'.cap \notin DOMAIN WsLoadChatState(chatState).sessionCaps)
     => /\ response' = Throw("unknown session capability")
        /\ "put chatState" \notin Range(effects')
        /\ chatState' = chatState]_vars

(***************************************************************************)
(* C29: a well-formed two-line batch that calls add on the calculator      *)
(* capability (id 1) with exactly two numeric arguments and pulls a        *)
(* numeric importId is answered ["result", importId, a + b].               *)
(***************************************************************************)
C29_CalculatorExampleAnswered ==
  [][(/\ request'.via = "batch"
      /\ request'.shape = "batch"
      /\ request'.cap = CALCULATOR_CAP_ID
      /\ request'.method = "add"
      /\ Len(request'.args) = 2
      /\ request'.args[1].t = "number"
      /\ request'.args[2].t = "number"
      /\ request'.importId.t = "number")
     => response' = Result(request'.importId,
                           Num(request'.args[1].n + request'.args[2].n))]_vars

(***************************************************************************)
(* C30: a two-line push/pull batch whose method name is stats and whose    *)
(* importId is a number is answered by the stats handler, whatever its     *)
(* capability id and arguments, with ["result", importId, {callCount,      *)
(* lastRequest, lastResponse}] equal to the stored diagnostics; with an    *)
(* importId that is no number it is answered by the fallback error; in     *)
(* both cases neither the diagnostics nor chatState change.                *)
(***************************************************************************)
StoredDiagnostics ==
  [callCount |-> callCount, lastRequest |-> lastRequest, lastResponse |-> lastResponse]

StatsBatch(req) ==
  /\ req.via = "batch"
  /\ req.shape \in {"batch", "pullIdNotNumber", "noArgs"}
  /\ req.method = "stats"

SendSucceeded(req, resp) ==
  /\ req.method = "sendMessage"
  /\ \/ req.via = "batch" /\ resp.tag = "result"
     \/ req.via = "ws" /\ resp.tag = "return"

FrameOfSend(before, after) ==
  /\ after.credentials = before.credentials
  /\ after.sessionCaps = before.sessionCaps
  /\ after.nextSessionCapId = before.nextSessionCapId
  /\ after.registeredNicks = before.registeredNicks
  /\ after.nickOwners = before.nickOwners
  /\ after.nickTokens = before.nickTokens

C31_SendChangesOnlyMessages ==
  [][(Handled /\ SendSucceeded(request', response'))
     => /\ chatState # NoValue
        /\ Len(chatState'.messages) = Len(chatState.messages) + 1
        /\ SubSeq(chatState'.messages, 1, Len(chatState.messages)) = chatState.messages
        /\ FrameOfSend(chatState, chatState')]_vars

(***************************************************************************)
(* C32: a successful storeNickToken by a session with username u leaves    *)
(* every nickTokens entry whose username differs from u in place and bound *)
(* to the username it had (neither removed nor re-bound to u), so that     *)
(* redeeming a token yields a session of the user who first stored it.     *)
(***************************************************************************)
C32_StoreKeepsOtherUsersTokens ==
  [][(/\ Handled
      /\ request'.via = "batch"
      /\ request'.method = "storeNickToken"
      /\ Payload(response') = [status |-> "ok", message |-> "Nickname token stored"])
     => LET before == loadChatState(chatState).nickTokens
            after == chatState'.nickTokens
            u == loadChatState(chatState).sessionCaps[request'.cap].username
        IN \A i \in 1..Len(before) :
             before[i].username # u
               => \E j \in 1..Len(after) :
                    /\ after[j].token = before[i].token
                    /\ after[j].username = before[i].username]_vars

(***************************************************************************)
(* C33: two capability-minting requests (auth or redeemNickToken, on the   *)
(* batch path or the WebSocket path) that are in flight together never     *)
(* return the same capability id, and once both have completed both        *)
(* minted sessions are keys of sessionCaps.                                *)
(***************************************************************************)
MintedBy(slot) ==
  /\ pending[slot].pc = "done"
  /\ "session" \in DOMAIN Payload(pending[slot].answer)

PlaceOf(messages, body) ==
  IF \E i \in 1..Len(messages) : messages[i].body = body
  THEN CHOOSE i \in 1..Len(messages) : messages[i].body = body
  ELSE 0

C34_DeliveryOrderIsPersistedOrder ==
  chatState # NoValue =>
    \A i, j \in 1..Len(deliveries) :
      LET first == PlaceOf(chatState.messages, deliveries[i].message.body)
          second == PlaceOf(chatState.messages, deliveries[j].message.body)
      IN (/\ i < j
          /\ deliveries[i].client = deliveries[j].client
          /\ first # 0
          /\ second # 0)
         => first < second

(***************************************************************************)
(* C35: in every state reachable from the empty default aggregate,         *)
(* nickOwners and registeredNicks have the same nicknames as keys, and     *)
(* every value of nickOwners is the username of some session in            *)
(* sessionCaps.                                                            *)
(***************************************************************************)
OwnersMatch(cs) ==
  /\ DOMAIN cs.nickOwners = DOMAIN cs.registeredNicks
  /\ \A nickname \in DOMAIN cs.nickOwners :
       \E id \in DOMAIN cs.sessionCaps :
         cs.sessionCaps[id].username = cs.nickOwners[nickname]

C35_OwnersAreSessionsOfRegisteredNicks ==
  /\ OwnersMatch(loadChatState(chatState))
  /\ OwnersMatch(WsLoadChatState(chatState))
  /\ chatState # NoValue => OwnersMatch(chatState)

\* C35 witness: bob, registered by a session of the batch path, is owned by
\* alice after she identified for it on the WebSocket path.
C35_OwnershipTransferredReached ==
  /\ request.via = "ws"
  /\ request.method = "identifyNick"
  /\ response.tag = "return"
  /\ response.value.status = "ok"
  /\ chatState.nickOwners = [n \in {"bob"} |-> "alice"]
  /\ \E id \in DOMAIN chatState.sessionCaps : chatState.sessionCaps[id].username = "guest-10000"

(***************************************************************************)
(* C36: registerNick, identifyNick, storeNickToken, sendMessage, whoami    *)
(* and checkNick invoked on capability c, on either path, leave the        *)
(* username and the displayName of every sessionCaps entry other than c    *)
(* as they were.                                                           *)
(***************************************************************************)
SessionScopedMethods ==
  {"registerNick", "identifyNick", "storeNickToken", "sendMessage", "whoami", "checkNick"}

C36_OtherSessionsKeepIdentity ==
  [][(/\ request'.via \in {"batch", "ws"}
      /\ request'.method \in SessionScopedMethods)
     => LET before == loadChatState(chatState).sessionCaps
            after == loadChatState(chatState').sessionCaps
        IN \A id \in DOMAIN before \ {request'.cap} :
             /\ id \in DOMAIN after
             /\ after[id].username = before[id].username
             /\ after[id].displayName = before[id].displayName]_vars

\* C36 witness: session 10001 has just registered bob on the batch path and
\* is shown as bob, while session 10000 of alice is shown as ann.
C36_NeighbourKeptNameReached ==
  /\ request.via = "batch"
  /\ request.method = "registerNick"
  /\ request.cap = SESSION_CAPABILITY_START + 1
  /\ Payload(response) = [status |-> "ok", message |-> "Nickname 'bob' registered successfully"]
  /\ chatState.sessionCaps[SESSION_CAPABILITY_START + 1].displayName = "bob"
  /\ chatState.sessionCaps[SESSION_CAPABILITY_START].username = "alice"
  /\ chatState.sessionCaps[SESSION_CAPABILITY_START].displayName = "ann"
====
